---- MODULE Spec2Model ----
(***************************************************************************)
(* Model of the yamos OAuth 2.1 authorization server: the pending-         *)
(* authorization store, the client registry with its redirect-URI policy,  *)
(* and the /authorize, /authorize/callback, /token and /register handlers. *)
(* Every handler is split at its await points (lock acquisitions), so that *)
(* concurrent requests interleave the way the tokio tasks do. Further     *)
(* sections model the router with its rate limiters, the bearer-token      *)
(* middleware, the note tools of YamosServer with their path validation,   *)
(* the CouchDbClient operations on chunked notes, the SearchIndex and the  *)
(* ChangesWatcher that keeps it in step with the database, the lock of the *)
(* index, a store shared with a LiveSync peer, reads beside writes, and    *)
(* the title and snippet functions of the search module.                   *)
(***************************************************************************)
EXTENDS Integers, Sequences, FiniteSets, TLC

(* ------------------------------------------------------------------ *)
(* Program constants                                                   *)
(* ------------------------------------------------------------------ *)

\* authorization_code.rs:18
MAX_PENDING_AUTHORISATIONS == 1000

\* authorization_code.rs:200, the age in seconds at which an entry expires
EXPIRY_SECS == 600

(* ------------------------------------------------------------------ *)
(* Bounds of the model                                                 *)
(* ------------------------------------------------------------------ *)

\* Uuid::new_v4() values minted for codes in one run (codes 1..MaxUuid)
MaxUuid == 2

\* the clock advances in steps of TickSecs, at most MaxTicks times
MaxTicks == 1

\* handlers in flight at the same time
MaxInflight == 2

\* dynamic registrations in one run
MaxRegistrations == 1

\* fresh codes stored on top of the prefilled store in SpecLRU
MaxFresh == 4

\* tokens issued in one run of SpecCreds or SpecJwt
MaxTokens == 2

\* clock steps of JwtTickSecs in SpecJwt
MaxJwtTicks == 4

TickSecs == EXPIRY_SECS

(* ------------------------------------------------------------------ *)
(* Option<T>: None is the empty tuple, Some(x) the one-element tuple   *)
(* ------------------------------------------------------------------ *)

None == <<>>

Some(x) == <<x>>

IsSome(o) == o /= <<>>

Unwrap(o) == o[1]

(* ------------------------------------------------------------------ *)
(* url::Url::parse on the URI strings of the model                     *)
(* ------------------------------------------------------------------ *)

\* what Url::parse, scheme(), host_str(), path() and query() give for each
\* string (ok = FALSE: Url::parse returns Err). The url crate lower-cases scheme
\* and host, drops a default port, and host_str() keeps the brackets of IPv6.
UrlOf(ok, scheme, host, port, path, query) ==
    [ok |-> ok, scheme |-> scheme, host |-> host, port |-> port, path |-> path,
     query |-> query]

Url_parse(s) ==
    CASE s = "https://app.example/cb"      -> UrlOf(TRUE, "https", Some("app.example"), None, "/cb", None)
      [] s = "https://app.example/other"   -> UrlOf(TRUE, "https", Some("app.example"), None, "/other", None)
      [] s = "https://evil.example/cb"     -> UrlOf(TRUE, "https", Some("evil.example"), None, "/cb", None)
      [] s = "http://evil.example/cb"      -> UrlOf(TRUE, "http", Some("evil.example"), None, "/cb", None)
      [] s = "http://localhost/cb"         -> UrlOf(TRUE, "http", Some("localhost"), None, "/cb", None)
      [] s = "http://localhost:5173/cb"    -> UrlOf(TRUE, "http", Some("localhost"), Some(5173), "/cb", None)
      [] s = "http://localhost:5173/other" -> UrlOf(TRUE, "http", Some("localhost"), Some(5173), "/other", None)
      [] s = "http://localhost:5173/cb?next=evil"
                                           -> UrlOf(TRUE, "http", Some("localhost"), Some(5173), "/cb", Some("next=evil"))
      [] s = "HTTP://LOCALHOST/cb"         -> UrlOf(TRUE, "http", Some("localhost"), None, "/cb", None)
      [] s = "https://localhost:8443/cb"   -> UrlOf(TRUE, "https", Some("localhost"), Some(8443), "/cb", None)
      [] s = "http://127.0.0.1/cb"         -> UrlOf(TRUE, "http", Some("127.0.0.1"), None, "/cb", None)
      [] s = "http://127.0.0.1:8080/cb"    -> UrlOf(TRUE, "http", Some("127.0.0.1"), Some(8080), "/cb", None)
      [] s = "http://[::1]/cb"             -> UrlOf(TRUE, "http", Some("[::1]"), None, "/cb", None)
      [] s = "http://[::1]:3000/cb"        -> UrlOf(TRUE, "http", Some("[::1]"), Some(3000), "/cb", None)
      [] s = "myapp://callback"            -> UrlOf(TRUE, "myapp", Some("callback"), None, "", None)
      [] s = "javascript:alert(1)"         -> UrlOf(TRUE, "javascript", None, None, "alert(1)", None)
      [] s = "JavaScript:alert(1)"         -> UrlOf(TRUE, "javascript", None, None, "alert(1)", None)
      [] s = "data:text/html,x"            -> UrlOf(TRUE, "data", None, None, "text/html,x", None)
      [] s = "vbscript:msgbox(1)"          -> UrlOf(TRUE, "vbscript", None, None, "msgbox(1)", None)
      [] s = "/cb"                         -> UrlOf(FALSE, "", None, None, "", None)
      [] s = "not a url"                   -> UrlOf(FALSE, "", None, None, "", None)
      [] OTHER                             -> UrlOf(FALSE, "", None, None, "", None)

UriStrings ==
    { "https://app.example/cb", "https://app.example/other", "https://evil.example/cb",
      "http://evil.example/cb", "http://localhost/cb", "http://localhost:5173/cb",
      "http://localhost:5173/other", "http://localhost:5173/cb?next=evil",
      "HTTP://LOCALHOST/cb", "https://localhost:8443/cb",
      "http://127.0.0.1/cb", "http://127.0.0.1:8080/cb", "http://[::1]/cb",
      "http://[::1]:3000/cb", "myapp://callback",
      "javascript:alert(1)", "JavaScript:alert(1)", "data:text/html,x",
      "vbscript:msgbox(1)", "/cb", "not a url" }

(* ------------------------------------------------------------------ *)
(* ClientRegistry: redirect-URI policy                                 *)
(* ------------------------------------------------------------------ *)

\* a scheme check that knows javascript and data only, and no IPv6 loopback
SchemeCheck_short(redirect_uri) ==
    LET parsed == Url_parse(redirect_uri) IN
    IF ~parsed.ok THEN "invalid redirect_uri: not a valid URL"
    ELSE IF parsed.scheme = "https" THEN ""
    ELSE IF parsed.scheme = "http" THEN
        IF IsSome(parsed.host)
           /\ Unwrap(parsed.host) /= "localhost"
           /\ Unwrap(parsed.host) /= "127.0.0.1"
        THEN "invalid redirect_uri: http only allowed for localhost"
        ELSE ""
    ELSE IF parsed.scheme \in {"javascript", "data"}
        THEN "invalid redirect_uri: " \o parsed.scheme \o " scheme not allowed"
        ELSE ""

\* the match on parsed.scheme() of validate_redirect_uri: "" when the scheme
\* policy lets the URI through, else the error message
SchemeCheck(redirect_uri) ==
    LET parsed == Url_parse(redirect_uri) IN
    IF ~parsed.ok THEN "invalid redirect_uri: not a valid URL"
    ELSE IF parsed.scheme = "https" THEN ""
    ELSE IF parsed.scheme = "http" THEN
        IF IsSome(parsed.host)
           /\ Unwrap(parsed.host) /= "localhost"
           /\ Unwrap(parsed.host) /= "127.0.0.1"
           /\ Unwrap(parsed.host) /= "[::1]"
        THEN "invalid redirect_uri: http only allowed for localhost"
        ELSE ""
    ELSE IF parsed.scheme \in {"javascript", "data", "vbscript"}
        THEN "invalid redirect_uri: " \o parsed.scheme \o " scheme not allowed"
        ELSE ""

redirect_uri_matches(registered, requested) ==
    IF registered = requested THEN TRUE
    ELSE LET reg_url == Url_parse(registered)
             req_url == Url_parse(requested) IN
         /\ reg_url.ok /\ req_url.ok
         /\ reg_url.scheme = req_url.scheme
         /\ IsSome(reg_url.host) /\ IsSome(req_url.host)
         /\ Unwrap(reg_url.host) \in {"localhost", "127.0.0.1"}
         /\ reg_url.host = req_url.host
         /\ reg_url.path = req_url.path

\* registry: function client_id -> sequence of registered redirect URIs.
\* Returns "" for Ok(()) and the error message for Err.
validate_redirect_uri(registry, client_id, redirect_uri) ==
    LET scheme_err == SchemeCheck(redirect_uri) IN
    IF scheme_err /= "" THEN scheme_err
    ELSE IF client_id \in DOMAIN registry THEN
        IF \E i \in 1..Len(registry[client_id]) :
              redirect_uri_matches(registry[client_id][i], redirect_uri)
        THEN ""
        ELSE "invalid redirect_uri: not registered for this client"
    ELSE ""

\* ClientRegistry::register: insert or replace the client's record
register(registry, client_id, redirect_uris) ==
    [c \in DOMAIN registry \cup {client_id} |->
        IF c = client_id THEN redirect_uris ELSE registry[c]]

(* ------------------------------------------------------------------ *)
(* PKCE                                                                *)
(* ------------------------------------------------------------------ *)

\* URL_SAFE_NO_PAD.encode(Sha256(code_verifier)) for the verifiers of the model
Sha256B64(code_verifier) ==
    CASE code_verifier = "dBjftJeZ4CVP-mB92K27uhbUJU1p1r_wW1gFWFOEjXk"
            -> "E9Melhoa2OwvFrEMTJguCHaoeK1t8URWbuGJSstw-cM"
      [] code_verifier = "verifier-two"
            -> "-OZP4bJHaGpD8aBOjIhyUGreuIdXfZtWCXsxKSQUzuw"
      [] code_verifier = ""
            -> "47DEQpj8HBSa-_TImW-5JCeuQeRkm5NMpJWZG3hSuFU"
      [] OTHER -> "?"

\* a verification that hashes the verifier and never compares the result with
\* the stored challenge
verify_pkce_unchecked(code_verifier, code_challenge) ==
    Sha256B64(code_verifier) /= "?"

verify_pkce(code_verifier, code_challenge) ==
    Sha256B64(code_verifier) = code_challenge

(* ------------------------------------------------------------------ *)
(* AuthorizationStore: pure versions of the three operations. A store *)
(* is the pair (pending: code -> PendingAuthorization, order: FIFO).  *)
(* ------------------------------------------------------------------ *)

MapRemove(m, k) == [c \in DOMAIN m \ {k} |-> m[c]]

MapInsert(m, k, v) == [c \in DOMAIN m \cup {k} |-> IF c = k THEN v ELSE m[c]]

\* a history counter: one more occurrence of k
BagCount(b, k) == IF k \in DOMAIN b THEN b[k] ELSE 0

BagAdd(b, k) == MapInsert(b, k, BagCount(b, k) + 1)

\* the while loop of store_pending: pop the oldest code while at capacity
RECURSIVE EvictOldest(_, _)
EvictOldest(p, o) ==
    IF Cardinality(DOMAIN p) >= MAX_PENDING_AUTHORISATIONS /\ o /= <<>>
    THEN EvictOldest(MapRemove(p, Head(o)), Tail(o))
    ELSE [pending |-> p, order |-> o]

\* store_pending that evicts once, and only when above capacity
store_pending_lax(p, o, code, auth) ==
    LET e == IF Cardinality(DOMAIN p) > MAX_PENDING_AUTHORISATIONS /\ o /= <<>>
             THEN [pending |-> MapRemove(p, Head(o)), order |-> Tail(o)]
             ELSE [pending |-> p, order |-> o] IN
    [pending |-> MapInsert(e.pending, code, auth),
     order   |-> Append(e.order, code)]

store_pending(p, o, code, auth) ==
    LET e == EvictOldest(p, o) IN
    [pending |-> MapInsert(e.pending, code, auth),
     order   |-> Append(e.order, code)]

\* take_pending that reads the record and leaves it in the map
take_pending_peek(p, o, code) ==
    [pending |-> p,
     order   |-> SelectSeq(o, LAMBDA c : c /= code),
     result  |-> IF code \in DOMAIN p THEN Some(p[code]) ELSE None]

take_pending(p, o, code) ==
    [pending |-> MapRemove(p, code),
     order   |-> SelectSeq(o, LAMBDA c : c /= code),
     result  |-> IF code \in DOMAIN p THEN Some(p[code]) ELSE None]

\* now.duration_since(created_at).as_secs(): saturates at zero
AgeSecs(t, created_at) == IF t >= created_at THEN t - created_at ELSE 0

Expired(p, t) == {c \in DOMAIN p : AgeSecs(t, p[c].created_at) >= EXPIRY_SECS}

\* cleanup_expired that keeps an entry until it is older than 600 seconds
cleanup_expired_strict(p, o, t) ==
    LET expired == {c \in DOMAIN p : AgeSecs(t, p[c].created_at) > EXPIRY_SECS} IN
    [pending |-> [c \in DOMAIN p \ expired |-> p[c]],
     order   |-> SelectSeq(o, LAMBDA c : c \notin expired)]

cleanup_expired(p, o, t) ==
    LET expired == Expired(p, t) IN
    [pending |-> [c \in DOMAIN p \ expired |-> p[c]],
     order   |-> SelectSeq(o, LAMBDA c : c \notin expired)]

(* ------------------------------------------------------------------ *)
(* State                                                               *)
(* ------------------------------------------------------------------ *)

VARIABLES
    pending,          \* AuthorizationStore.pending: code -> PendingAuthorization
    insertion_order,  \* AuthorizationStore.insertion_order: FIFO of codes
    clients,          \* ClientRegistry.clients: client_id -> redirect URIs
    consent_pin,      \* Args::consent_pin, fixed at start-up
    now,              \* the monotonic clock (Instant::now()), in seconds
    next_uuid,        \* the next value Uuid::new_v4() gives for a code
    registrations,    \* client ids handed out by /register so far
    inflight,         \* the handlers in flight, one per slot, with their locals
    last,             \* the result of the last direct call (SpecRegistry, SpecLRU)
    session_codes,    \* history: code minted by GET /authorize -> what it stored
    auth_codes,       \* history: code minted at approval -> the approval request
    rejected,         \* history: GET /authorize requests answered 400
    sent,             \* history: code -> response of the request that took it
    taken,            \* history: code -> times take_pending returned its record
    tokens,           \* history: the JWTs issued
    buckets,          \* rate limiter: layer -> (client IP -> cells left)
    tool_call,        \* the tool call being served, with its locals
    backend_log,      \* history: the CouchDbClient calls made by the tools
    db,               \* the CouchDB database: document id -> document
    procs,            \* the CouchDbClient calls in flight, with their locals
    next_chunk,       \* the next value generate_chunk_id() gives
    search_index,     \* SearchIndex: notes by path, and last_seq
    watcher,          \* the ChangesWatcher task: where it is, with its locals
    cancel,           \* the CancellationToken: whether it was cancelled
    couch,            \* the database as the change feed shows it
    index_lock        \* the RwLock around the SearchIndex: who holds it

authVars == << pending, insertion_order, clients, consent_pin, now, next_uuid,
               registrations, inflight, last, session_codes, auth_codes, rejected,
               sent, taken, tokens >>

rateVars == << buckets >>

docVars == << tool_call, backend_log, db, procs, next_chunk >>

watchVars == << search_index, watcher, cancel, couch, index_lock >>

\* the state outside the authorization server
ext == << rateVars, docVars, watchVars >>

vars == << authVars, ext >>

Slots == 1..MaxInflight

EmptyMap == [c \in {} |-> None]

Idle == [kind |-> "idle", pc |-> "", code |-> None, auth |-> None, req |-> None]

\* a request that arrives is served by a free task; the slots are not visible
\* to the program, so the lowest idle one is taken
Free(s) == inflight[s] = Idle /\ \A r \in Slots : r < s => inflight[r] /= Idle

\* a response: status, OAuth error (or ""), Location of a redirect with the
\* code and state it carries, and the sub of the token in the body
Response(status, error, location, code, state, sub) ==
    [status |-> status, error |-> error, location |-> location, code |-> code,
     state |-> state, sub |-> sub]

\* the client id /register hands out at its n-th call ("mcp-client-<uuid>")
ClientIdOf(n) ==
    CASE n = 1 -> "mcp-client-1"
      [] n = 2 -> "mcp-client-2"
      [] n = 3 -> "mcp-client-3"
      [] OTHER -> "mcp-client-n"

\* request inputs of the main specification
GoodUri == "https://app.example/cb"

EvilUri == "http://evil.example/cb"

Verifier1 == "dBjftJeZ4CVP-mB92K27uhbUJU1p1r_wW1gFWFOEjXk"

Verifier2 == "verifier-two"

Pins == {None, Some("1234")}

\* codes a client has been sent: a consent-session code once the consent page
\* is returned, an authorization code once the redirect is returned
Published ==
    {c \in DOMAIN session_codes : \A s \in Slots : inflight[s].code /= Some(c)}
    \cup DOMAIN auth_codes

\* codes a request can present: a published one, or one never minted (0); a v4
\* UUID is not guessed before it is sent
PresentableCodes == Published \cup {0}

AuthorizationRequest(client_id, redirect_uri, code_challenge, state) ==
    [client_id |-> client_id, redirect_uri |-> redirect_uri,
     code_challenge |-> code_challenge, state |-> state]

AuthorizationRequests ==
    { AuthorizationRequest("static-client", GoodUri, Sha256B64(Verifier1), None),
      AuthorizationRequest("client-b", GoodUri, Sha256B64(Verifier1), Some("xyz")),
      AuthorizationRequest("static-client", EvilUri, Sha256B64(Verifier1), None) }

AuthorizationApproval(code, approve, pin) ==
    [code |-> code, approve |-> approve, pin |-> pin]

\* approve=true with and without the PIN, approve=false, approve absent
AuthorizationApprovals ==
    UNION { { AuthorizationApproval(c, Some("true"), None),
              AuthorizationApproval(c, Some("true"), Some("1234")),
              AuthorizationApproval(c, Some("false"), None),
              AuthorizationApproval(c, None, Some("1234")) } : c \in PresentableCodes }

TokenRequest(code, code_verifier, redirect_uri) ==
    [code |-> code, code_verifier |-> code_verifier, redirect_uri |-> redirect_uri]

\* per presented code: the matching request, one with another verifier, one
\* with another redirect_uri, and one lacking each parameter
TokenRequests(codes) ==
    UNION { { TokenRequest(Some(c), Some(Verifier1), Some(GoodUri)),
              TokenRequest(Some(c), Some(Verifier2), Some(GoodUri)),
              TokenRequest(Some(c), Some(Verifier1), Some(EvilUri)),
              TokenRequest(Some(c), None, Some(GoodUri)),
              TokenRequest(Some(c), Some(Verifier1), None) } : c \in codes }
    \cup { TokenRequest(None, Some(Verifier1), Some(GoodUri)) }

NoCall == [op |-> "none"]

\* RATE_LIMIT_BURST, and the burst of the stricter limiter
RateLimitBurst == 6

AuthBurst == RateLimitBurst \div 3

\* client addresses SmartIpKeyExtractor tells apart
ClientIps == {"10.0.0.1", "10.0.0.2"}

\* the two GovernorLayers
BurstOf(layer) == IF layer = "auth" THEN AuthBurst ELSE RateLimitBurst

MaxProcs == 2

NoToolCall ==
    [tool |-> "none", items |-> <<>>, i |-> 1, results |-> <<>>,
     outcome |-> "none", error |-> ""]

\* a limiter starts with its full burst for every key; no tool call is
\* being served and the database holds no document
InitExt ==
    /\ buckets = [layer \in {"main", "auth"} |-> [ip \in ClientIps |-> BurstOf(layer)]]
    /\ tool_call = NoToolCall
    /\ backend_log = <<>>
    /\ db = [notes |-> EmptyMap, leaves |-> EmptyMap, rows |-> {}]
    /\ procs = [p \in 1..MaxProcs |-> [op |-> "idle"]]
    /\ next_chunk = 1
    /\ search_index = [notes |-> EmptyMap, last_seq |-> None]
    /\ watcher = [pc |-> "loading", since |-> [now |-> TRUE, seq |-> 0], sent |-> 0,
                  event |-> None,
                  done |-> None, timer |-> 0, cause |-> "none", step |-> 0]
    /\ cancel = FALSE
    /\ couch = [seq |-> 0, docs |-> EmptyMap]
    /\ index_lock = [writer |-> FALSE, readers |-> 0]

Init ==
    /\ pending = EmptyMap
    /\ insertion_order = <<>>
    /\ clients = EmptyMap
    /\ consent_pin \in Pins
    /\ now = 0
    /\ next_uuid = 1
    /\ registrations = 0
    /\ inflight = [s \in Slots |-> Idle]
    /\ last = NoCall
    /\ session_codes = EmptyMap
    /\ auth_codes = EmptyMap
    /\ rejected = {}
    /\ sent = EmptyMap
    /\ taken = EmptyMap
    /\ tokens = {}
    /\ InitExt

(* ------------------------------------------------------------------ *)
(* Time                                                                *)
(* ------------------------------------------------------------------ *)

Tick ==
    /\ now + TickSecs <= MaxTicks * TickSecs
    /\ now' = now + TickSecs
    /\ UNCHANGED << ext, pending, insertion_order, clients, consent_pin, next_uuid,
                    registrations, inflight, last, session_codes, auth_codes,
                    rejected, sent, taken, tokens >>

(* ------------------------------------------------------------------ *)
(* GET /authorize: authorize_handler                                   *)
(* ------------------------------------------------------------------ *)

PendingAuthorization(req, created_at) ==
    [client_id |-> req.client_id, redirect_uri |-> req.redirect_uri,
     code_challenge |-> req.code_challenge, code_challenge_method |-> "S256",
     state |-> req.state, created_at |-> created_at]

\* the rejection answered with a redirect to the URI that failed validation
authorize_reject_redirecting(s, req) ==
    /\ Free(s)
    /\ validate_redirect_uri(clients, req.client_id, req.redirect_uri) /= ""
    /\ rejected' = rejected \cup
            {[req |-> req,
              response |-> Response(307, "invalid_request", Some(req.redirect_uri),
                                    None, req.state, None)]}
    /\ UNCHANGED << ext, pending, insertion_order, clients, consent_pin, now, next_uuid,
                    registrations, inflight, last, session_codes, auth_codes,
                    sent, taken, tokens >>

\* validate_redirect_uri failed: the 400 error page, no redirect
authorize_reject(s, req) ==
    /\ Free(s)
    /\ validate_redirect_uri(clients, req.client_id, req.redirect_uri) /= ""
    /\ rejected' = rejected \cup
            {[req |-> req, response |-> Response(400, "invalid redirect_uri", None, None, None, None)]}
    /\ UNCHANGED << ext, pending, insertion_order, clients, consent_pin, now, next_uuid,
                    registrations, inflight, last, session_codes, auth_codes,
                    sent, taken, tokens >>

\* validate_redirect_uri passed: temp_code and the PendingAuthorization are
\* built (created_at = Instant::now()), then store_pending is awaited
authorize_validate(s, req) ==
    /\ Free(s)
    /\ validate_redirect_uri(clients, req.client_id, req.redirect_uri) = ""
    /\ next_uuid <= MaxUuid
    /\ next_uuid' = next_uuid + 1
    /\ inflight' = [inflight EXCEPT ![s] =
            [kind |-> "authorize", pc |-> "store", code |-> Some(next_uuid),
             auth |-> Some(PendingAuthorization(req, now)), req |-> None]]
    /\ UNCHANGED << ext, pending, insertion_order, clients, consent_pin, now,
                    registrations, last, session_codes, auth_codes, rejected,
                    sent, taken, tokens >>

authorize_store(s) ==
    /\ inflight[s].kind = "authorize" /\ inflight[s].pc = "store"
    /\ LET st == store_pending(pending, insertion_order,
                               Unwrap(inflight[s].code), Unwrap(inflight[s].auth)) IN
       /\ pending' = st.pending
       /\ insertion_order' = st.order
    /\ session_codes' = MapInsert(session_codes, Unwrap(inflight[s].code),
                                  Unwrap(inflight[s].auth))
    /\ inflight' = [inflight EXCEPT ![s].pc = "cleanup"]
    /\ UNCHANGED << ext, clients, consent_pin, now, next_uuid, registrations, last,
                    auth_codes, rejected, sent, taken, tokens >>

\* cleanup_expired, then the consent page carrying temp_code
authorize_cleanup(s) ==
    /\ inflight[s].kind = "authorize" /\ inflight[s].pc = "cleanup"
    /\ LET st == cleanup_expired(pending, insertion_order, now) IN
       /\ pending' = st.pending
       /\ insertion_order' = st.order
    /\ inflight' = [inflight EXCEPT ![s] = Idle]
    /\ UNCHANGED << ext, clients, consent_pin, now, next_uuid, registrations, last,
                    session_codes, auth_codes, rejected, sent, taken, tokens >>

(* ------------------------------------------------------------------ *)
(* /authorize/callback: authorize_approval_handler                     *)
(* ------------------------------------------------------------------ *)

\* the Location error_redirect builds: redirect_uri with error, description
\* and, when there is one, state appended
error_redirect(redirect_uri, error, description, state) ==
    Response(307, error, Some(redirect_uri), None, state, None)

\* take_pending found nothing: 400 "Authorization session expired or invalid"
approval_missing(s, approval) ==
    /\ Free(s)
    /\ LET t == take_pending(pending, insertion_order, approval.code) IN
       /\ t.result = None
       /\ pending' = t.pending
       /\ insertion_order' = t.order
    /\ UNCHANGED << ext, clients, consent_pin, now, next_uuid, registrations, inflight,
                    last, session_codes, auth_codes, rejected, sent, taken, tokens >>

\* a denial that answers from the session without consuming it
approval_deny_keeping(s, approval) ==
    /\ Free(s)
    /\ approval.approve /= Some("true")
    /\ approval.code \in DOMAIN pending
    /\ sent' = MapInsert(sent, approval.code,
                         error_redirect(pending[approval.code].redirect_uri,
                                        "access_denied",
                                        "User denied the authorization request",
                                        pending[approval.code].state))
    /\ taken' = BagAdd(taken, approval.code)
    /\ UNCHANGED << ext, pending, insertion_order, clients, consent_pin, now, next_uuid,
                    registrations, inflight, last, session_codes, auth_codes,
                    rejected, tokens >>

\* approve is not "true": error_redirect to the stored redirect_uri
approval_deny(s, approval) ==
    /\ Free(s)
    /\ approval.approve /= Some("true")
    /\ LET t == take_pending(pending, insertion_order, approval.code) IN
       /\ t.result /= None
       /\ pending' = t.pending
       /\ insertion_order' = t.order
       /\ sent' = MapInsert(sent, approval.code,
                            error_redirect(Unwrap(t.result).redirect_uri, "access_denied",
                                           "User denied the authorization request",
                                           Unwrap(t.result).state))
    /\ taken' = BagAdd(taken, approval.code)
    /\ UNCHANGED << ext, clients, consent_pin, now, next_uuid, registrations, inflight,
                    last, session_codes, auth_codes, rejected, tokens >>

\* approve = "true": auth_code is minted, then store_pending is awaited
approval_take(s, approval) ==
    /\ Free(s)
    /\ approval.approve = Some("true")
    /\ next_uuid <= MaxUuid
    /\ LET t == take_pending(pending, insertion_order, approval.code) IN
       /\ t.result /= None
       /\ pending' = t.pending
       /\ insertion_order' = t.order
       /\ inflight' = [inflight EXCEPT ![s] =
            [kind |-> "callback", pc |-> "store", code |-> Some(next_uuid),
             auth |-> t.result, req |-> Some(approval)]]
    /\ next_uuid' = next_uuid + 1
    /\ taken' = BagAdd(taken, approval.code)
    /\ UNCHANGED << ext, clients, consent_pin, now, registrations, last,
                    session_codes, auth_codes, rejected, sent, tokens >>

\* store_pending(auth_code, pending.clone()), then the redirect with the code
approval_store(s) ==
    /\ inflight[s].kind = "callback" /\ inflight[s].pc = "store"
    /\ LET auth == Unwrap(inflight[s].auth)
           st == store_pending(pending, insertion_order, Unwrap(inflight[s].code), auth) IN
       /\ pending' = st.pending
       /\ insertion_order' = st.order
       /\ sent' = MapInsert(sent, Unwrap(inflight[s].req).code,
                            Response(307, "", Some(auth.redirect_uri), inflight[s].code,
                                     auth.state, None))
    /\ auth_codes' = MapInsert(auth_codes, Unwrap(inflight[s].code),
                               Unwrap(inflight[s].req))
    /\ inflight' = [inflight EXCEPT ![s] = Idle]
    /\ UNCHANGED << ext, clients, consent_pin, now, next_uuid, registrations, last,
                    session_codes, rejected, taken, tokens >>

(* ------------------------------------------------------------------ *)
(* POST /token, grant_type=authorization_code:                         *)
(* handle_authorization_code_grant                                     *)
(* ------------------------------------------------------------------ *)

\* JwtTokenIssuer::issue_token: the claims of the JWT (sub = client_id,
\* iss = "yamos", jti fresh); code and age record what it was issued for
issue_token(client_id, jti, code, age) ==
    [sub |-> client_id, iss |-> "yamos", jti |-> jti, code |-> code, age |-> age]

\* the handler starts with cleanup_expired; the request was sent with the codes
\* published by then (inflight[s].req)
token_cleanup(s) ==
    /\ Free(s)
    /\ LET st == cleanup_expired(pending, insertion_order, now) IN
       /\ pending' = st.pending
       /\ insertion_order' = st.order
    /\ inflight' = [inflight EXCEPT ![s] =
            [kind |-> "token", pc |-> "take", code |-> None, auth |-> None,
             req |-> Some(PresentableCodes)]]
    /\ UNCHANGED << ext, clients, consent_pin, now, next_uuid, registrations, last,
                    session_codes, auth_codes, rejected, sent, taken, tokens >>

\* the handler after cleanup_expired, putting the record back when the
\* redirect_uri or the PKCE check fails
TokenOutcome_keep_on_failure(p, o, req) ==
    IF req.code = None \/ req.code_verifier = None THEN
        [pending |-> p, order |-> o, result |-> None,
         response |-> Response(400, "invalid_request", None, None, None, None)]
    ELSE LET tk == take_pending(p, o, Unwrap(req.code)) IN
        IF tk.result = None THEN
            [pending |-> tk.pending, order |-> tk.order, result |-> None,
             response |-> Response(400, "invalid_grant", None, None, None, None)]
        ELSE IF req.redirect_uri = None THEN
            [pending |-> tk.pending, order |-> tk.order, result |-> tk.result,
             response |-> Response(400, "invalid_request", None, None, None, None)]
        ELSE IF \/ Unwrap(req.redirect_uri) /= Unwrap(tk.result).redirect_uri
                \/ ~verify_pkce(Unwrap(req.code_verifier), Unwrap(tk.result).code_challenge)
        THEN
            [pending |-> p, order |-> o, result |-> tk.result,
             response |-> Response(400, "invalid_grant", None, None, None, None)]
        ELSE
            [pending |-> tk.pending, order |-> tk.order, result |-> tk.result,
             response |-> Response(200, "", None, None, None,
                                   Some(Unwrap(tk.result).client_id))]

\* the handler after cleanup_expired, for request req on store (p, o): the
\* store it leaves, the record take_pending gave, and the response
TokenOutcome(p, o, req) ==
    IF req.code = None \/ req.code_verifier = None THEN
        [pending |-> p, order |-> o, result |-> None,
         response |-> Response(400, "invalid_request", None, None, None, None)]
    ELSE LET tk == take_pending(p, o, Unwrap(req.code)) IN
        IF tk.result = None THEN
            [pending |-> tk.pending, order |-> tk.order, result |-> None,
             response |-> Response(400, "invalid_grant", None, None, None, None)]
        ELSE IF req.redirect_uri = None THEN
            [pending |-> tk.pending, order |-> tk.order, result |-> tk.result,
             response |-> Response(400, "invalid_request", None, None, None, None)]
        ELSE IF Unwrap(req.redirect_uri) /= Unwrap(tk.result).redirect_uri THEN
            [pending |-> tk.pending, order |-> tk.order, result |-> tk.result,
             response |-> Response(400, "invalid_grant", None, None, None, None)]
        ELSE IF ~verify_pkce(Unwrap(req.code_verifier), Unwrap(tk.result).code_challenge) THEN
            [pending |-> tk.pending, order |-> tk.order, result |-> tk.result,
             response |-> Response(400, "invalid_grant", None, None, None, None)]
        ELSE
            [pending |-> tk.pending, order |-> tk.order, result |-> tk.result,
             response |-> Response(200, "", None, None, None,
                                   Some(Unwrap(tk.result).client_id))]

\* parameter checks, take_pending, redirect_uri and PKCE checks, issue_token:
\* no await after take_pending returns
token_take(s, req) ==
    /\ inflight[s].kind = "token" /\ inflight[s].pc = "take"
    /\ req \in TokenRequests(Unwrap(inflight[s].req))
    /\ LET out == TokenOutcome(pending, insertion_order, req) IN
       /\ pending' = out.pending
       /\ insertion_order' = out.order
       /\ sent' = IF out.result /= None
                  THEN MapInsert(sent, Unwrap(req.code), out.response)
                  ELSE sent
       /\ taken' = IF out.result /= None THEN BagAdd(taken, Unwrap(req.code)) ELSE taken
       /\ tokens' = IF out.response.status = 200
                    THEN tokens \cup
                         {issue_token(Unwrap(out.response.sub), Cardinality(tokens) + 1,
                                      Unwrap(req.code),
                                      AgeSecs(now, Unwrap(out.result).created_at))}
                    ELSE tokens
    /\ inflight' = [inflight EXCEPT ![s] = Idle]
    /\ UNCHANGED << ext, clients, consent_pin, now, next_uuid, registrations, last,
                    session_codes, auth_codes, rejected >>

(* ------------------------------------------------------------------ *)
(* The authorization server: Spec                                      *)
(* ------------------------------------------------------------------ *)

Next ==
    \/ Tick
    \/ \E s \in Slots, req \in AuthorizationRequests : authorize_reject(s, req)
    \/ \E s \in Slots, req \in AuthorizationRequests : authorize_validate(s, req)
    \/ \E s \in Slots : authorize_store(s)
    \/ \E s \in Slots : authorize_cleanup(s)
    \/ \E s \in Slots, approval \in AuthorizationApprovals : approval_missing(s, approval)
    \/ \E s \in Slots, approval \in AuthorizationApprovals : approval_deny(s, approval)
    \/ \E s \in Slots, approval \in AuthorizationApprovals : approval_take(s, approval)
    \/ \E s \in Slots : approval_store(s)
    \/ \E s \in Slots : token_cleanup(s)
    \/ \E s \in Slots : \E req \in TokenRequests(PresentableCodes) : token_take(s, req)

Spec == Init /\ [][Next]_vars

(* ------------------------------------------------------------------ *)
(* The client registry and the redirect-URI policy: SpecRegistry       *)
(* ------------------------------------------------------------------ *)

RegisteredUriLists ==
    { <<"https://app.example/cb", "http://localhost/cb">>,
      <<"http://127.0.0.1/cb">>,
      <<"http://[::1]/cb">>,
      <<"myapp://callback", "javascript:alert(1)">> }

ClientRegistrationRequests ==
    [redirect_uris : {None, Some(<<>>)} \cup {Some(l) : l \in RegisteredUriLists}]

\* client ids a request can name: the statically configured one and those
\* /register has handed out
KnownClientIds == {"static-client"} \cup {ClientIdOf(n) : n \in 1..registrations}

register_handler(req) ==
    /\ registrations < MaxRegistrations
    /\ registrations' = registrations + 1
    /\ LET client_id == ClientIdOf(registrations + 1)
           redirect_uris == IF req.redirect_uris = None THEN <<>>
                            ELSE Unwrap(req.redirect_uris) IN
       /\ clients' = IF redirect_uris /= <<>>
                     THEN register(clients, client_id, redirect_uris)
                     ELSE clients
       /\ last' = [op |-> "register", client_id |-> client_id,
                   redirect_uris |-> redirect_uris]
    /\ UNCHANGED << ext, pending, insertion_order, consent_pin, now, next_uuid, inflight,
                    session_codes, auth_codes, rejected, sent, taken, tokens >>

\* the validation authorize_handler starts with, for any URI of the table
validate_call(client_id, redirect_uri) ==
    /\ last' = [op |-> "validate_redirect_uri", client_id |-> client_id,
                redirect_uri |-> redirect_uri,
                result |-> validate_redirect_uri(clients, client_id, redirect_uri)]
    /\ UNCHANGED << ext, pending, insertion_order, clients, consent_pin, now, next_uuid,
                    registrations, inflight, session_codes, auth_codes, rejected,
                    sent, taken, tokens >>

NextRegistry ==
    \/ \E req \in ClientRegistrationRequests : register_handler(req)
    \/ \E client_id \in KnownClientIds, redirect_uri \in UriStrings :
            validate_call(client_id, redirect_uri)

SpecRegistry == Init /\ [][NextRegistry]_vars

(* ------------------------------------------------------------------ *)
(* The store at capacity: SpecLRU. The store is filled from empty with *)
(* fresh codes 0, 1, 2, ... (c0, c1, c2, ...); from FillLevel entries   *)
(* on, take_pending, cleanup_expired and the clock interleave with the *)
(* next MaxFresh calls of store_pending.                               *)
(* ------------------------------------------------------------------ *)

FillLevel == MAX_PENDING_AUTHORISATIONS - 2

\* the record stored under a code: its state names the code
RecordOf(code, created_at) ==
    [client_id |-> "static-client", redirect_uri |-> GoodUri,
     code_challenge |-> Sha256B64(Verifier1), code_challenge_method |-> "S256",
     state |-> Some(code), created_at |-> created_at]

\* codes take_pending is tried with: the oldest (c0) and the newest
ProbeCodes == {0, next_uuid - 1}

StoresOnly == last.stores_before /\ last.op \in {"none", "store_pending"}

\* last.stores_before: every call before the last one was a store_pending
InitLRU ==
    /\ pending = EmptyMap
    /\ insertion_order = <<>>
    /\ clients = EmptyMap
    /\ consent_pin = None
    /\ now = 0
    /\ next_uuid = 0
    /\ registrations = 0
    /\ inflight = [s \in Slots |-> Idle]
    /\ last = [op |-> "none", code |-> None, result |-> None, stores_before |-> TRUE]
    /\ session_codes = EmptyMap
    /\ auth_codes = EmptyMap
    /\ rejected = {}
    /\ sent = EmptyMap
    /\ taken = EmptyMap
    /\ tokens = {}
    /\ InitExt

lru_store ==
    /\ next_uuid < FillLevel + MaxFresh
    /\ LET st == store_pending(pending, insertion_order, next_uuid,
                               RecordOf(next_uuid, now)) IN
       /\ pending' = st.pending
       /\ insertion_order' = st.order
    /\ next_uuid' = next_uuid + 1
    /\ last' = [op |-> "store_pending", code |-> Some(next_uuid), result |-> None,
                stores_before |-> StoresOnly]
    /\ UNCHANGED << ext, clients, consent_pin, now, registrations, inflight,
                    session_codes, auth_codes, rejected, sent, taken, tokens >>

lru_take(code) ==
    /\ next_uuid >= FillLevel
    /\ LET t == take_pending(pending, insertion_order, code) IN
       /\ pending' = t.pending
       /\ insertion_order' = t.order
       /\ last' = [op |-> "take_pending", code |-> Some(code), result |-> t.result,
                   stores_before |-> StoresOnly]
    /\ UNCHANGED << ext, clients, consent_pin, now, next_uuid, registrations, inflight,
                    session_codes, auth_codes, rejected, sent, taken, tokens >>

lru_cleanup ==
    /\ next_uuid >= FillLevel
    /\ LET st == cleanup_expired(pending, insertion_order, now) IN
       /\ pending' = st.pending
       /\ insertion_order' = st.order
    /\ last' = [op |-> "cleanup_expired", code |-> None, result |-> None,
                stores_before |-> StoresOnly]
    /\ UNCHANGED << ext, clients, consent_pin, now, next_uuid, registrations, inflight,
                    session_codes, auth_codes, rejected, sent, taken, tokens >>

lru_tick ==
    /\ next_uuid >= FillLevel
    /\ Tick

NextLRU ==
    \/ lru_store
    \/ \E code \in ProbeCodes : lru_take(code)
    \/ lru_cleanup
    \/ lru_tick

SpecLRU == InitLRU /\ [][NextLRU]_vars

(* ------------------------------------------------------------------ *)
(* The router and the consent page: SpecBrowser. A user agent opens    *)
(* GET /authorize and follows the controls of the page it is given;    *)
(* other clients send POST /authorize/callback themselves. One request *)
(* is in flight at a time.                                             *)
(* ------------------------------------------------------------------ *)

\* the routes of run_sse_server_with_oauth: path -> (method -> handler)
Routes ==
    [p \in {"/token", "/register", "/.well-known/oauth-protected-resource",
            "/.well-known/oauth-authorization-server", "/authorize",
            "/authorize/callback", "/"} |->
        CASE p = "/token" -> [m \in {"POST"} |-> "oauth_token_handler"]
          [] p = "/register" -> [m \in {"POST"} |-> "register_handler"]
          [] p = "/.well-known/oauth-protected-resource"
                -> [m \in {"GET"} |-> "protected_resource_metadata_handler"]
          [] p = "/.well-known/oauth-authorization-server"
                -> [m \in {"GET"} |-> "metadata_handler"]
          [] p = "/authorize" -> [m \in {"GET"} |-> "authorize_handler"]
          [] p = "/authorize/callback"
                -> [m \in {"POST"} |-> "authorize_approval_handler"]
          [] p = "/" -> [m \in {"GET", "POST", "DELETE"} |-> "http_service"]]

\* axum's dispatch: 404 for an unknown path, 405 for a method the path has no
\* route for, else the handler
Route(method, path) ==
    IF path \notin DOMAIN Routes THEN [status |-> 404, handler |-> ""]
    ELSE IF method \notin DOMAIN Routes[path] THEN [status |-> 405, handler |-> ""]
    ELSE [status |-> 200, handler |-> Routes[path][method]]

\* the two controls of consent_page(client_id, code): anchors, which a user
\* agent follows with GET
consent_page(code) ==
    { [method |-> "GET", path |-> "/authorize/callback", code |-> code,
       approve |-> Some("true")],
      [method |-> "GET", path |-> "/authorize/callback", code |-> code,
       approve |-> Some("false")] }

Quiet == \A s \in Slots : inflight[s] = Idle

\* the consent pages the user agent has been given and whose session is open
OpenPages == {c \in DOMAIN session_codes \cap DOMAIN pending : c \in Published}

browser_authorize(req) ==
    /\ Quiet
    /\ Route("GET", "/authorize").handler = "authorize_handler"
    /\ \/ authorize_reject(1, req)
       \/ authorize_validate(1, req)

\* the user presses Approve or Deny on a page
control_click(control) ==
    /\ Quiet
    /\ LET r == Route(control.method, control.path)
           approval == AuthorizationApproval(control.code, control.approve, None) IN
       IF r.handler = "authorize_approval_handler"
       THEN /\ last' = [op |-> "click", control |-> control, status |-> r.status,
                        handler |-> r.handler]
            /\ (approval_deny(1, approval) \/ approval_take(1, approval))
       ELSE /\ last' = [op |-> "click", control |-> control, status |-> r.status,
                        handler |-> r.handler]
            /\ UNCHANGED << ext, pending, insertion_order, clients, consent_pin, now,
                            next_uuid, registrations, inflight, session_codes,
                            auth_codes, rejected, sent, taken, tokens >>

\* a client that sends the callback itself, as a POST
post_callback(approval) ==
    /\ Quiet
    /\ Route("POST", "/authorize/callback").handler = "authorize_approval_handler"
    /\ \/ approval_missing(1, approval)
       \/ approval_deny(1, approval)
       \/ approval_take(1, approval)

post_token ==
    /\ Quiet
    /\ Route("POST", "/token").handler = "oauth_token_handler"
    /\ token_cleanup(1)

NextBrowser ==
    \/ \E req \in AuthorizationRequests : browser_authorize(req)
    \/ authorize_store(1)
    \/ authorize_cleanup(1)
    \/ \E c \in OpenPages : \E control \in consent_page(c) : control_click(control)
    \/ \E approval \in AuthorizationApprovals : post_callback(approval)
    \/ approval_store(1)
    \/ post_token
    \/ \E req \in TokenRequests(PresentableCodes) : token_take(1, req)

SpecBrowser == Init /\ [][NextBrowser]_vars

(* ------------------------------------------------------------------ *)
(* POST /token, grant_type=client_credentials: SpecCreds               *)
(* ------------------------------------------------------------------ *)

\* AuthConfig.client_id and client_secret: the statically configured pair
StaticClientId == "static-client"

StaticClientSecret == "static-secret"

\* the client_secret /register returns with its n-th client_id (a fresh UUID)
SecretOf(n) ==
    CASE n = 1 -> "secret-1"
      [] n = 2 -> "secret-2"
      [] n = 3 -> "secret-3"
      [] OTHER -> "secret-n"

\* the secret a RegisteredClient record holds: the record has the fields
\* client_id, redirect_uris and created_at, and register is given no secret
RegisteredClientSecret(registry, client_id) == None

\* ClientRegistry::validate_credentials: Ok when a dynamically registered
\* client with the given id and secret exists
validate_credentials(registry, client_id, client_secret) ==
    /\ client_id \in DOMAIN registry
    /\ RegisteredClientSecret(registry, client_id) = Some(client_secret)

\* subtle::ConstantTimeEq on the bytes of the two strings
ct_eq(a, b) == a = b

\* ClientValidator::validate: TRUE for Ok(ClientInfo { client_id, .. })
validate(registry, client_id, client_secret) ==
    IF validate_credentials(registry, client_id, client_secret) THEN TRUE
    ELSE LET id_matches == ct_eq(client_id, StaticClientId)
             secret_matches == ct_eq(client_secret, StaticClientSecret) IN
         id_matches /\ secret_matches

CredentialRequest(client_id, client_secret) ==
    [client_id |-> client_id, client_secret |-> client_secret]

\* the ids and secrets a request can carry: the static ones, those /register
\* has returned, a wrong one and the empty string, or none
CredentialRequests ==
    [client_id : {None} \cup {Some(i) : i \in KnownClientIds \cup {"nobody", ""}},
     client_secret : {None} \cup
        {Some(x) : x \in {StaticClientSecret, "wrong", ""}
                         \cup {SecretOf(n) : n \in 1..registrations}}]

\* handle_client_credentials_grant
handle_client_credentials_grant(req) ==
    /\ Cardinality(tokens) < MaxTokens
    /\ LET response ==
            IF req.client_id = None \/ req.client_secret = None
            THEN Response(400, "invalid_request", None, None, None, None)
            ELSE IF validate(clients, Unwrap(req.client_id), Unwrap(req.client_secret))
            THEN Response(200, "", None, None, None, req.client_id)
            ELSE Response(401, "invalid_client", None, None, None, None) IN
       /\ last' = [op |-> "client_credentials", req |-> req, response |-> response]
       /\ tokens' = IF response.status = 200
                    THEN tokens \cup {issue_token(Unwrap(response.sub),
                                                  Cardinality(tokens) + 1, 0, 0)}
                    ELSE tokens
    /\ UNCHANGED << ext, pending, insertion_order, clients, consent_pin, now, next_uuid,
                    registrations, inflight, session_codes, auth_codes, rejected,
                    sent, taken >>

NextCreds ==
    \/ \E req \in ClientRegistrationRequests : register_handler(req)
    \/ \E req \in CredentialRequests : handle_client_credentials_grant(req)

SpecCreds == Init /\ [][NextCreds]_vars

(* ------------------------------------------------------------------ *)
(* JWTs and jwt_auth_middleware: SpecJwt. A token is the record of its *)
(* header algorithm, the key that signed it and its claims.            *)
(* ------------------------------------------------------------------ *)

\* Validation::new sets leeway to 60 seconds; JwtTokenValidator::new keeps it
LEEWAY_SECS == 60

JwtTickSecs == LEEWAY_SECS \div 2

\* AuthConfig.jwt_secret
JwtSecret == "jwt-secret"

BaseUrl == "https://yamos.example"

Claims(sub, iat, exp, jti, iss) ==
    [sub |-> sub, iat |-> iat, exp |-> exp, jti |-> jti, iss |-> iss]

\* encode(&Header::default(), &claims, &encoding_key): HS256 under key
encode(alg, key, claims) == [alg |-> alg, key |-> key, claims |-> claims]

\* JwtTokenIssuer::issue_token at time t with the configured duration
issue_jwt(client_id, t, duration, jti) ==
    encode("HS256", JwtSecret,
           Claims(Some(client_id), Some(t),
                  IF duration = None THEN None ELSE Some(t + Unwrap(duration)),
                  Some(jti), Some("yamos")))

\* a validator that does not look at the issuer
validate_token_any_issuer(token, t) ==
    /\ token.alg = "HS256"
    /\ token.key = JwtSecret
    /\ token.claims.sub /= None /\ token.claims.iat /= None
    /\ token.claims.jti /= None /\ token.claims.iss /= None
    /\ token.claims.exp /= None => ~(Unwrap(token.claims.exp) < t - LEEWAY_SECS)

\* JwtTokenValidator::validate_token at time t: decode::<Claims> checks the
\* algorithm and the signature, exp (when present, with the leeway), iss, the
\* required sub, and deserializes Claims (sub, iat, jti, iss: not optional)
validate_token(token, t) ==
    /\ token.alg = "HS256"
    /\ token.key = JwtSecret
    /\ token.claims.sub /= None /\ token.claims.iat /= None
    /\ token.claims.jti /= None /\ token.claims.iss /= None
    /\ token.claims.iss = Some("yamos")
    /\ token.claims.exp /= None => ~(Unwrap(token.claims.exp) < t - LEEWAY_SECS)

\* unauthorized_response(base_url, error)
unauthorized_response(base_url, error) ==
    [status |-> 401,
     www_authenticate |->
        [scheme |-> "Bearer", realm |-> base_url,
         resource_metadata |-> base_url \o "/.well-known/oauth-protected-resource",
         error |-> error]]

\* an Authorization header: what precedes the token, and the token
AuthorizationHeader(prefix, token) == [prefix |-> prefix, token |-> token]

\* the decision of jwt_auth_middleware for a request at time t: forwarded to
\* the tool service (next.run) or answered 401
jwt_auth_middleware(auth_header, t) ==
    IF auth_header /= None /\ Unwrap(auth_header).prefix = "Bearer "
    THEN IF validate_token(Unwrap(auth_header).token, t)
         THEN [forwarded |-> TRUE, response |-> [status |-> 200]]
         ELSE [forwarded |-> FALSE,
               response |-> unauthorized_response(BaseUrl, Some("invalid_token"))]
    ELSE [forwarded |-> FALSE, response |-> unauthorized_response(BaseUrl, None)]

\* tokens not made by /token: each differs from an issued one in one respect
Forged(token) ==
    { [token EXCEPT !.key = "other-secret"],
      [token EXCEPT !.alg = "HS384"],
      [token EXCEPT !.alg = "none"],
      [token EXCEPT !.claims.iss = Some("other")],
      [token EXCEPT !.claims.iss = None],
      [token EXCEPT !.claims.sub = None],
      [token EXCEPT !.claims.iat = None],
      [token EXCEPT !.claims.jti = None],
      [token EXCEPT !.claims.exp = None] }

AuthorizationHeaders ==
    {None}
    \cup {Some(AuthorizationHeader(prefix, token)) :
            prefix \in {"Bearer ", "bearer ", "Basic ", ""}, token \in tokens}
    \cup {Some(AuthorizationHeader("Bearer ", f)) : f \in UNION {Forged(t) : t \in tokens}}

\* the token_expiration the server runs with: none, or one clock step
TokenExpirations == {None, Some(JwtTickSecs)}

\* /token issues a JWT for the static client
jwt_issue(duration) ==
    /\ Cardinality(tokens) < MaxTokens
    /\ tokens' = tokens \cup
            {issue_jwt(StaticClientId, now, duration, Cardinality(tokens) + 1)}
    /\ UNCHANGED << ext, pending, insertion_order, clients, consent_pin, now, next_uuid,
                    registrations, inflight, last, session_codes, auth_codes,
                    rejected, sent, taken >>

jwt_tick ==
    /\ now + JwtTickSecs <= MaxJwtTicks * JwtTickSecs
    /\ now' = now + JwtTickSecs
    /\ UNCHANGED << ext, pending, insertion_order, clients, consent_pin, next_uuid,
                    registrations, inflight, last, session_codes, auth_codes,
                    rejected, sent, taken, tokens >>

\* a request to the protected route
jwt_request(auth_header) ==
    /\ LET d == jwt_auth_middleware(auth_header, now) IN
       last' = [op |-> "request", auth_header |-> auth_header, at |-> now,
                forwarded |-> d.forwarded, response |-> d.response]
    /\ UNCHANGED << ext, pending, insertion_order, clients, consent_pin, now, next_uuid,
                    registrations, inflight, session_codes, auth_codes, rejected,
                    sent, taken, tokens >>

NextJwt ==
    \/ \E duration \in TokenExpirations : jwt_issue(duration)
    \/ jwt_tick
    \/ \E auth_header \in AuthorizationHeaders : jwt_request(auth_header)

SpecJwt == Init /\ [][NextJwt]_vars

(* ------------------------------------------------------------------ *)
(* Claims                                                              *)
(* ------------------------------------------------------------------ *)

\* the consent session a code belongs to: itself, or the session it was
\* approved from
FlowOf(c) == IF c \in DOMAIN auth_codes THEN auth_codes[c].code ELSE c

\* C1: a token is issued only for a code minted by /authorize/callback after
\* approve=true; the consent-session code minted by GET /authorize is never
\* accepted by POST /token.
C1_OnlyApprovedCodesExchanged ==
    \A t \in tokens : t.code \in DOMAIN auth_codes

\* C2: every stored code is consumed at most once: under every interleaving of
\* the handlers, take_pending returns the record of a code to at most one
\* caller, and at most one token is issued per code.
C2_ConsumedAtMostOnce ==
    /\ \A c \in DOMAIN taken : taken[c] <= 1
    /\ \A c \in 1..MaxUuid : Cardinality({t \in tokens : t.code = c}) <= 1

\* a token was issued for a code while another /token request, sent when the
\* code was already published, is about to call take_pending
C2_Witness ==
    \E t \in tokens : \E s \in Slots :
        /\ inflight[s].kind = "token" /\ inflight[s].pc = "take"
        /\ t.code \in Unwrap(inflight[s].req)
        /\ taken[t.code] = 1

\* C5: no token is issued for a pending authorization that is 600 or more
\* seconds old when it is exchanged, whatever the interleaving of the clock,
\* cleanup_expired and take_pending.
C5_NoExpiredExchange ==
    \A t \in tokens : t.code \in DOMAIN auth_codes => t.age < EXPIRY_SECS

\* C10: with a consent PIN configured, an authorization code is minted and
\* stored at approval only when the request carries that PIN.
C10_PinGatesApproval ==
    consent_pin /= None =>
        \A a \in DOMAIN auth_codes : auth_codes[a].pin = consent_pin

\* C3: the authorization_code grant issues a JWT exactly when take_pending
\* finds an entry under the presented code, the presented redirect_uri equals
\* the stored one and base64url-no-pad(SHA-256(code_verifier)) equals the
\* stored code_challenge; the token's sub is the stored client_id. The verifier
\* of the PKCE test vector matches its challenge and no other verifier does.
C3_Step(s, req) ==
    LET present == req.code /= None /\ Unwrap(req.code) \in DOMAIN pending
        entry == pending[Unwrap(req.code)]
        valid ==
            /\ present
            /\ req.redirect_uri /= None
            /\ Unwrap(req.redirect_uri) = entry.redirect_uri
            /\ req.code_verifier /= None
            /\ Sha256B64(Unwrap(req.code_verifier)) = entry.code_challenge
    IN  /\ (tokens' /= tokens) <=> valid
        /\ valid => \E t \in tokens' \ tokens :
                        /\ tokens' = tokens \cup {t}
                        /\ t.sub = entry.client_id
                        /\ t.code = Unwrap(req.code)

C3_TokenIffValid ==
    /\ [](/\ verify_pkce(Verifier1, "E9Melhoa2OwvFrEMTJguCHaoeK1t8URWbuGJSstw-cM")
          /\ \A v, w \in {Verifier1, Verifier2, ""} :
                v /= w => ~verify_pkce(v, Sha256B64(w)))
    /\ [][\A s \in Slots :
              (inflight[s].kind = "token" /\ inflight[s].pc = "take"
                                          /\ inflight'[s] = Idle) =>
                  \A req \in TokenRequests(Unwrap(inflight[s].req)) :
                      token_take(s, req) => C3_Step(s, req)]_vars

\* a token was issued for an approved authorization of client-b
C3_Witness ==
    \E t \in tokens : t.sub = "client-b" /\ t.code \in DOMAIN auth_codes

\* C6: when validate_redirect_uri fails for a GET /authorize request, the
\* answer is a 400 page without a redirect, and the store is unchanged: no
\* consent-session code is minted or stored.
C6_Step(s, req) ==
    /\ pending' = pending
    /\ insertion_order' = insertion_order
    /\ next_uuid' = next_uuid
    /\ inflight' = inflight
    /\ session_codes' = session_codes
    /\ \E r \in rejected' :
          /\ r.req = req
          /\ r.response.status = 400
          /\ r.response.location = None

C6_RejectLeavesStore ==
    /\ [](\A r \in rejected : r.response.status = 400 /\ r.response.location = None)
    /\ [][\A s \in Slots : \A req \in AuthorizationRequests :
              (/\ validate_redirect_uri(clients, req.client_id, req.redirect_uri) /= ""
               /\ (authorize_reject(s, req) \/ authorize_validate(s, req)))
              => C6_Step(s, req)]_vars

\* a request for http://evil.example/cb was rejected while a consent session
\* was pending
C6_Witness ==
    /\ \E r \in rejected : r.req.redirect_uri = EvilUri
    /\ pending /= EmptyMap

\* C9: a callback for a consent-session code that is in the store, with
\* approve other than "true" (or absent), consumes the session and answers
\* with a redirect to the stored redirect_uri carrying error=access_denied and
\* the stored state; it stores no authorization code, and no token is ever
\* issued for that session or for a code derived from it.
Denied == {c \in DOMAIN sent \cap DOMAIN session_codes : sent[c].error = "access_denied"}

C9_Step(s, approval) ==
    LET c == approval.code IN
    /\ c \notin DOMAIN pending'
    /\ DOMAIN pending' = DOMAIN pending \ {c}
    /\ c \in DOMAIN sent'
    /\ sent'[c].status = 307
    /\ sent'[c].error = "access_denied"
    /\ sent'[c].location = Some(pending[c].redirect_uri)
    /\ sent'[c].state = pending[c].state
    /\ sent'[c].code = None
    /\ auth_codes' = auth_codes
    /\ next_uuid' = next_uuid
    /\ inflight' = inflight
    /\ tokens' = tokens

C9_DenyEndsFlow ==
    /\ [](\A c \in Denied :
            /\ c \notin DOMAIN pending
            /\ sent[c].location = Some(session_codes[c].redirect_uri)
            /\ sent[c].state = session_codes[c].state
            /\ \A a \in DOMAIN auth_codes : auth_codes[a].code /= c
            /\ \A s \in Slots :
                  inflight[s].kind = "callback" => Unwrap(inflight[s].req).code /= c
            /\ \A t \in tokens : FlowOf(t.code) /= c)
    /\ [][\A s \in Slots : \A approval \in AuthorizationApprovals :
              (/\ approval.approve /= Some("true")
               /\ approval.code \in DOMAIN pending
               /\ approval.code \in DOMAIN session_codes
               /\ \/ approval_missing(s, approval)
                  \/ approval_deny(s, approval)
                  \/ approval_take(s, approval))
              => C9_Step(s, approval)]_vars

\* a session opened with state "xyz" was denied, and a /token request that
\* can present its code is about to call take_pending
C9_Witness ==
    \E c \in Denied :
        /\ session_codes[c].state = Some("xyz")
        /\ \E s \in Slots :
              /\ inflight[s].kind = "token" /\ inflight[s].pc = "take"
              /\ c \in Unwrap(inflight[s].req)

\* C4: the store never holds more than 1000 entries; after store_pending
\* calls alone with n > 1000 unique codes it holds exactly the 1000 most
\* recently inserted ones, so that after c0..c1001 take_pending(c0) returns
\* nothing and take_pending(c1001) returns the record stored last.
MostRecent == (next_uuid - MAX_PENDING_AUTHORISATIONS)..(next_uuid - 1)

C4_BoundedMostRecent ==
    /\ Cardinality(DOMAIN pending) <= MAX_PENDING_AUTHORISATIONS
    /\ (StoresOnly /\ next_uuid > MAX_PENDING_AUTHORISATIONS) =>
          /\ DOMAIN pending = MostRecent
          /\ Cardinality(DOMAIN pending) = MAX_PENDING_AUTHORISATIONS
          /\ \A c \in DOMAIN pending : pending[c].state = Some(c)
    /\ (/\ last.op = "take_pending" /\ last.stores_before
        /\ next_uuid > MAX_PENDING_AUTHORISATIONS) =>
          /\ Unwrap(last.code) \notin DOMAIN pending
          /\ IF Unwrap(last.code) \in MostRecent
             THEN /\ last.result /= None
                  /\ Unwrap(last.result).state = last.code
                  /\ DOMAIN pending = MostRecent \ {Unwrap(last.code)}
             ELSE /\ last.result = None
                  /\ DOMAIN pending = MostRecent

\* c0..c1001 were stored and nothing else was called, then take_pending(c1001)
\* returned a record
C4_Witness ==
    /\ next_uuid = MAX_PENDING_AUTHORISATIONS + 2
    /\ last.op = "take_pending" /\ last.stores_before
    /\ last.code = Some(MAX_PENDING_AUTHORISATIONS + 1)
    /\ last.result /= None

\* C7: validate_redirect_uri rejects every URI that does not parse, every http
\* URI whose host is not localhost, 127.0.0.1 or [::1], and every javascript,
\* data or vbscript URI, whether or not the client is registered; https and
\* custom schemes are not rejected by the scheme check; for a client_id absent
\* from the registry (a client that called /register without redirect_uris
\* included) the result is Ok exactly when the scheme policy passes.
PolicyPasses(uri) ==
    LET u == Url_parse(uri) IN
    /\ u.ok
    /\ u.scheme = "http" => u.host \in {Some("localhost"), Some("127.0.0.1"), Some("[::1]")}
    /\ u.scheme \notin {"javascript", "data", "vbscript"}

NotRegisteredErr == "invalid redirect_uri: not registered for this client"

C7_SchemePolicy ==
    last.op = "validate_redirect_uri" =>
        /\ ~PolicyPasses(last.redirect_uri) =>
              last.result \notin {"", NotRegisteredErr}
        /\ PolicyPasses(last.redirect_uri) =>
              last.result \in {"", NotRegisteredErr}
        /\ last.client_id \notin DOMAIN clients =>
              (last.result = "" <=> PolicyPasses(last.redirect_uri))

\* a client that registered without redirect_uris asked for JavaScript:alert(1)
\* and was refused
C7_Witness ==
    /\ last.op = "validate_redirect_uri"
    /\ registrations = 1
    /\ last.client_id = ClientIdOf(1)
    /\ last.client_id \notin DOMAIN clients
    /\ last.redirect_uri = "JavaScript:alert(1)"
    /\ last.result /= ""

\* C8: for a client in the registry a requested URI is accepted exactly when it
\* passes the scheme policy and either equals a registered URI as a string or
\* differs from a registered localhost URI in nothing but the port; every
\* other URI that passes the scheme policy is rejected as not registered.
OnlyPortDiffers(registered, requested) ==
    LET reg == Url_parse(registered)
        req == Url_parse(requested) IN
    /\ reg.ok /\ req.ok
    /\ reg.host \in {Some("localhost"), Some("127.0.0.1")}
    /\ reg.scheme = req.scheme
    /\ reg.host = req.host
    /\ reg.path = req.path
    /\ reg.query = req.query

C8_RegisteredMatch ==
    (last.op = "validate_redirect_uri" /\ last.client_id \in DOMAIN clients) =>
        LET uris == clients[last.client_id]
            allowed ==
                /\ PolicyPasses(last.redirect_uri)
                /\ \E i \in 1..Len(uris) :
                      \/ uris[i] = last.redirect_uri
                      \/ OnlyPortDiffers(uris[i], last.redirect_uri)
        IN  /\ last.result = "" <=> allowed
            /\ (PolicyPasses(last.redirect_uri) /\ ~allowed) =>
                  last.result = NotRegisteredErr

\* C11: the Approve and Deny controls of the consent page call
\* /authorize/callback with a method the router has a route for, so that a
\* click reaches authorize_approval_handler (and an approved flow can go on to
\* a token).
C11_ControlsReachHandler ==
    last.op = "click" =>
        /\ last.status /= 405
        /\ last.handler = "authorize_approval_handler"

\* C12: the client_credentials grant issues a JWT, with sub the presented
\* client_id, exactly when the presented pair is the pair /register returned
\* to a dynamically registered client or the statically configured pair; every
\* failed validation gets the same 401 invalid_client response and no token.
CredentialsMatch(client_id, client_secret) ==
    \/ client_id = StaticClientId /\ client_secret = StaticClientSecret
    \/ \E n \in 1..registrations :
          client_id = ClientIdOf(n) /\ client_secret = SecretOf(n)

C12_CredentialsGrant ==
    (/\ last.op = "client_credentials"
     /\ last.req.client_id /= None /\ last.req.client_secret /= None) =>
        LET ok == CredentialsMatch(Unwrap(last.req.client_id),
                                   Unwrap(last.req.client_secret)) IN
        /\ last.response.status = 200 <=> ok
        /\ ok => last.response.sub = last.req.client_id
        /\ ~ok => last.response =
                    Response(401, "invalid_client", None, None, None, None)

\* C13 (as stated): a request is forwarded to the tool service exactly when
\* its Authorization header is "Bearer <t>" and t is HS256 under the
\* configured secret with iss = yamos, sub and iat present and, when exp is
\* present, the time is not after exp; otherwise the answer is 401 with
\* WWW-Authenticate naming realm and resource_metadata, with
\* error="invalid_token" exactly when a Bearer token was presented.
BearerPresented == last.auth_header /= None /\ Unwrap(last.auth_header).prefix = "Bearer "

ValidAsStated(token, t) ==
    /\ token.alg = "HS256" /\ token.key = JwtSecret
    /\ token.claims.iss = Some("yamos")
    /\ token.claims.sub /= None /\ token.claims.iat /= None
    /\ token.claims.exp /= None => t <= Unwrap(token.claims.exp)

Unauthorized401 ==
    /\ last.response.status = 401
    /\ last.response.www_authenticate.realm = BaseUrl
    /\ last.response.www_authenticate.resource_metadata =
            BaseUrl \o "/.well-known/oauth-protected-resource"
    /\ last.response.www_authenticate.error =
            IF BearerPresented THEN Some("invalid_token") ELSE None

C13_ForwardIffValid ==
    last.op = "request" =>
        /\ last.forwarded <=>
              (BearerPresented /\ ValidAsStated(Unwrap(last.auth_header).token, last.at))
        /\ ~last.forwarded => Unauthorized401

\* C13 (amended): as above, with the token's claims sub, iat, jti and iss all
\* present and the expiry enforced with the validator's 60 seconds of leeway:
\* a token with exp is accepted while the time is at most exp + 60.
ValidWithLeeway(token, t) ==
    /\ token.alg = "HS256" /\ token.key = JwtSecret
    /\ token.claims.iss = Some("yamos")
    /\ token.claims.sub /= None /\ token.claims.iat /= None
    /\ token.claims.jti /= None
    /\ token.claims.exp /= None => t <= Unwrap(token.claims.exp) + LEEWAY_SECS

C13_ForwardIffValidWithLeeway ==
    last.op = "request" =>
        /\ last.forwarded <=>
              (BearerPresented /\ ValidWithLeeway(Unwrap(last.auth_header).token, last.at))
        /\ ~last.forwarded => Unauthorized401

\* a token issued by /token was forwarded after its exp, and the same
\* token can be presented at a later time
C13_Witness ==
    /\ last.op = "request" /\ last.forwarded
    /\ Unwrap(last.auth_header).token \in tokens
    /\ Unwrap(last.auth_header).token.claims.exp /= None
    /\ Unwrap(Unwrap(last.auth_header).token.claims.exp) < last.at


(* ------------------------------------------------------------------ *)
(* Rate limiting: SpecRate. The three routers that are merged, each    *)
(* with the GovernorLayer attached to it, if any. A layer covers only  *)
(* the routes of the router it is attached to.                         *)
(* ------------------------------------------------------------------ *)

\* rate_limited_auth_routes, oauth_routes, protected_routes
Routers ==
    << [routes |-> {"/token", "/register"}, layer |-> Some("auth")],
       [routes |-> {"/.well-known/oauth-protected-resource",
                    "/.well-known/oauth-authorization-server",
                    "/authorize", "/authorize/callback"}, layer |-> None],
       [routes |-> {"/"}, layer |-> Some("main")] >>

\* the limiter a request for the path goes through
LayerOf(path) ==
    LET i == CHOOSE i \in DOMAIN Routers : path \in Routers[i].routes IN
    Routers[i].layer

\* GovernorLayer: a request with no cell left for its key is answered 429
\* and the inner service is not called; otherwise it takes one cell
rate_request(path, ip) ==
    LET layer == LayerOf(path)
        cells == IF IsSome(layer) THEN buckets[Unwrap(layer)][ip] ELSE 0
        passed == layer = None \/ cells > 0 IN
    /\ last' = [op |-> "http", path |-> path, ip |-> ip, layer |-> layer,
                cells_before |-> cells, passed |-> passed,
                status |-> IF passed THEN 200 ELSE 429]
    /\ buckets' = IF IsSome(layer) /\ cells > 0
                  THEN [buckets EXCEPT ![Unwrap(layer)][ip] = cells - 1]
                  ELSE buckets
    /\ UNCHANGED << docVars, watchVars, pending, insertion_order, clients, consent_pin, now,
                    next_uuid, registrations, inflight, session_codes, auth_codes,
                    rejected, sent, taken, tokens >>

\* the quota of a key is replenished one cell at a time, up to the burst
rate_replenish(layer, ip) ==
    /\ buckets[layer][ip] < BurstOf(layer)
    /\ buckets' = [buckets EXCEPT ![layer][ip] = @ + 1]
    /\ UNCHANGED << docVars, watchVars, authVars >>

NextRate ==
    \/ \E path \in DOMAIN Routes : \E ip \in ClientIps : rate_request(path, ip)
    \/ \E layer \in {"main", "auth"} : \E ip \in ClientIps : rate_replenish(layer, ip)

SpecRate == Init /\ [][NextRate]_vars

\* C14: every route is behind a per-IP bucket: /token and /register behind
\* the stricter one, every other route behind the main one; a request that
\* finds its bucket empty is answered 429 and does not reach the handler.
C14_EveryRouteLimited ==
    last.op = "http" =>
        /\ last.layer = (IF last.path \in {"/token", "/register"}
                         THEN Some("auth") ELSE Some("main"))
        /\ (last.cells_before = 0) <=> (last.status = 429 /\ ~last.passed)


(* ------------------------------------------------------------------ *)
(* Note paths: SpecPath. A path is the sequence of its characters; a   *)
(* character outside printable ASCII is written by its code point.     *)
(* ------------------------------------------------------------------ *)

MaxStemLen == 2

\* char::is_alphanumeric: Unicode Alphabetic or Numeric, not only ASCII
is_alphanumeric(c) == c \in {"a", "7", "m", "d", "M", "D", "U+00E9", "U+0663"}

\* the characters paths are built from: letters and digits (ASCII, e-acute,
\* Arabic-Indic three), the punctuation of the allow-list, and NUL,
\* backslash, colon and the euro sign
StemChars ==
    {"a", "7", "U+00E9", "U+0663", " ", "-", "_", ".", "/", "(", ")", "'",
     "U+0000", "\\", ":", "U+20AC"}

NotePaths ==
    { stem \o suffix :
        stem \in UNION { [1..k -> StemChars] : k \in 0..MaxStemLen },
        suffix \in { <<>>, <<".", "m", "d">>, <<".", "M", "D">>, <<"m", "d">> } }

\* str::ends_with and str::contains for a pattern given as a sequence
ends_with(path, pat) ==
    /\ Len(path) >= Len(pat)
    /\ SubSeq(path, Len(path) - Len(pat) + 1, Len(path)) = pat

contains(path, pat) ==
    \E i \in 1..Len(path) : i + Len(pat) - 1 <= Len(path)
                            /\ SubSeq(path, i, i + Len(pat) - 1) = pat

\* the first character the allow-list does not have, if any
invalid_char(path) ==
    LET bad == { i \in 1..Len(path) :
                   ~is_alphanumeric(path[i])
                   /\ path[i] \notin {" ", "-", "_", ".", "/", "(", ")", "'"} } IN
    IF bad = {} THEN None
    ELSE Some(path[CHOOSE i \in bad : \A j \in bad : i <= j])

\* validate_note_path without the check for '..'
validate_note_path_dots(path) ==
    IF path = <<>> THEN "Note path cannot be empty"
    ELSE IF ~ends_with(path, <<".", "m", "d">>) THEN "Note path must end with .md"
    ELSE IF path[1] = "/" THEN "Note path cannot start with '/'"
    ELSE IF contains(path, <<"U+0000">>) THEN "Note path cannot contain null bytes"
    ELSE IF IsSome(invalid_char(path))
    THEN "Note path contains invalid character: '" \o Unwrap(invalid_char(path)) \o "'"
    ELSE ""

\* the message of the error returned, or "" for Ok(())
validate_note_path(path) ==
    IF path = <<>> THEN "Note path cannot be empty"
    ELSE IF ~ends_with(path, <<".", "m", "d">>) THEN "Note path must end with .md"
    ELSE IF contains(path, <<".", ".">>) THEN "Note path cannot contain '..'"
    ELSE IF path[1] = "/" THEN "Note path cannot start with '/'"
    ELSE IF contains(path, <<"U+0000">>) THEN "Note path cannot contain null bytes"
    ELSE IF IsSome(invalid_char(path))
    THEN "Note path contains invalid character: '" \o Unwrap(invalid_char(path)) \o "'"
    ELSE ""

\* one call, on any path
path_validate(path) ==
    /\ last = NoCall
    /\ last' = [op |-> "validate_note_path", path |-> path,
                result |-> validate_note_path(path)]
    /\ UNCHANGED << ext, pending, insertion_order, clients, consent_pin, now,
                    next_uuid, registrations, inflight, session_codes, auth_codes,
                    rejected, sent, taken, tokens >>

NextPath == \E path \in NotePaths : path_validate(path)

SpecPath == Init /\ [][NextPath]_vars

\* the properties of a path the statements name, apart from its alphabet
WellFormed(path) ==
    /\ path /= <<>>
    /\ ends_with(path, <<".", "m", "d">>)
    /\ ~contains(path, <<".", ".">>)
    /\ path[1] /= "/"
    /\ ~contains(path, <<"U+0000">>)

AllowedPunctuation == {" ", "-", "_", ".", "/", "(", ")", "'"}

\* C15: validate_note_path accepts a path iff it is non-empty, ends in .md,
\* has no '..', does not start with '/', has no NUL, and every character is
\* in [A-Za-z0-9 -_./()'].
C15_AcceptsIffAscii ==
    last.op = "validate_note_path" =>
        ((last.result = "") <=>
            /\ WellFormed(last.path)
            /\ \A i \in 1..Len(last.path) :
                 last.path[i] \in {"a", "7", "m", "d", "M", "D"} \cup AllowedPunctuation)

\* C15, as the code has it: validate_note_path accepts a path iff it is
\* non-empty, ends in .md, has no '..', does not start with '/', has no NUL,
\* and every character is a Unicode letter or digit or one of  -_./()' and
\* the space.
C15_AcceptsIffAlphanumeric ==
    last.op = "validate_note_path" =>
        ((last.result = "") <=>
            /\ WellFormed(last.path)
            /\ \A i \in 1..Len(last.path) :
                 last.path[i] \in {"a", "7", "m", "d", "M", "D", "U+00E9", "U+0663"}
                                  \cup AllowedPunctuation)

\* a path with a non-ASCII letter is accepted
C15_Witness ==
    /\ last.op = "validate_note_path"
    /\ last.result = ""
    /\ contains(last.path, <<"U+00E9">>)


(* ------------------------------------------------------------------ *)
(* The tools of YamosServer: SpecTools. One tool call is served at a   *)
(* time; backend_log holds the CouchDbClient calls of the call being   *)
(* served, each with the element it was made for and how it ended. The *)
(* document store may fail any call.                                   *)
(* ------------------------------------------------------------------ *)

MaxBatch == 3

\* the paths given to the tools: two notes and a traversal
ToolPaths ==
    { <<"a", ".", "m", "d">>, <<"7", ".", "m", "d">>,
      <<".", ".", "/", "a", ".", "m", "d">> }

SingleTools ==
    {"list_notes", "read_note", "write_note", "append_to_note", "insert_lines",
     "delete_lines", "delete_note"}

BatchTools ==
    {"batch_read_notes", "batch_write_notes", "batch_delete_notes",
     "batch_append_to_notes"}

\* the CouchDbClient calls a tool makes for one path, in order
DbCalls(tool) ==
    CASE tool \in {"read_note", "batch_read_notes"} -> <<"get_note", "decode_content">>
      [] tool \in {"write_note", "batch_write_notes"} -> <<"save_note">>
      [] tool \in {"append_to_note", "batch_append_to_notes"} -> <<"append_to_note">>
      [] tool \in {"delete_note", "batch_delete_notes"} -> <<"delete_note">>
      [] tool = "list_notes" -> <<"list_notes">>
      [] OTHER -> <<tool>>

\* how the calls for one path can end: each call is made only if the one
\* before it succeeded
IoOutcomes(tool) ==
    { io \in UNION { [1..k -> BOOLEAN] : k \in 1..Len(DbCalls(tool)) } :
        /\ \A k \in 1..(Len(io) - 1) : io[k]
        /\ Len(io) < Len(DbCalls(tool)) => ~io[Len(io)] }

\* the log entries of the calls made for items[index]; path is None for
\* list_notes
Logged(tool, path, index, io) ==
    [k \in 1..Len(io) |->
        [op |-> DbCalls(tool)[k], path |-> path, index |-> index, ok |-> io[k]]]

\* the checks of a single-note tool before its first await, without the
\* validation of delete_note's path
entry_checks_lax(tool, req) ==
    LET v == IF tool = "list_notes" THEN "" ELSE validate_note_path(Unwrap(req.path)) IN
    IF v /= "" /\ tool /= "delete_note" THEN v
    ELSE IF tool = "insert_lines" /\ req.line = 0
    THEN "Line number must be at least 1 (lines are 1-indexed)"
    ELSE IF tool = "delete_lines" /\ (req.line = 0 \/ req.end_line = 0)
    THEN "Line numbers must be at least 1 (lines are 1-indexed)"
    ELSE IF tool = "delete_lines" /\ req.line > req.end_line
    THEN "start_line cannot be greater than end_line"
    ELSE ""

\* the checks of a single-note tool before its first await: the message of
\* the error returned, or ""
entry_checks(tool, req) ==
    LET v == IF tool = "list_notes" THEN "" ELSE validate_note_path(Unwrap(req.path)) IN
    IF v /= "" THEN v
    ELSE IF tool = "insert_lines" /\ req.line = 0
    THEN "Line number must be at least 1 (lines are 1-indexed)"
    ELSE IF tool = "delete_lines" /\ (req.line = 0 \/ req.end_line = 0)
    THEN "Line numbers must be at least 1 (lines are 1-indexed)"
    ELSE IF tool = "delete_lines" /\ req.line > req.end_line
    THEN "start_line cannot be greater than end_line"
    ELSE ""

\* the requests of the single-note tools; list_notes takes no path, and
\* req.line is the start_line of delete_lines
ToolRequests(tool) ==
    { [path |-> p, line |-> l, end_line |-> e] :
        p \in (IF tool = "list_notes" THEN {None} ELSE { Some(q) : q \in ToolPaths }),
        l \in (IF tool \in {"insert_lines", "delete_lines"} THEN 0..2 ELSE {1}),
        e \in (IF tool = "delete_lines" THEN 0..2 ELSE {1}) }

Serving == tool_call.outcome = "running"

\* a single-note tool up to its first await; items holds its path, if any
tool_enter(tool, req) ==
    /\ ~Serving
    /\ LET err == entry_checks(tool, req) IN
       tool_call' = [tool |-> tool, items |-> req.path, i |-> 1, results |-> <<>>,
                     outcome |-> IF err = "" THEN "running" ELSE "error",
                     error |-> err]
    /\ backend_log' = <<>>
    /\ UNCHANGED << authVars, rateVars, watchVars, db, procs, next_chunk >>

\* its CouchDbClient calls, and the result
tool_io(io) ==
    /\ Serving
    /\ tool_call.tool \in SingleTools
    /\ io \in IoOutcomes(tool_call.tool)
    /\ backend_log' = backend_log
                        \o Logged(tool_call.tool, tool_call.items, 1, io)
    /\ tool_call' = [tool_call EXCEPT
                        !.outcome = IF io[Len(io)] THEN "success" ELSE "error",
                        !.error = IF io[Len(io)] THEN "" ELSE "backend error"]
    /\ UNCHANGED << authVars, rateVars, watchVars, db, procs, next_chunk >>

\* Vec::push with the new result put first
push_front(results, result) == <<result>> \o results

\* Vec::push
push(results, result) == Append(results, result)

batch_enter(tool, paths) ==
    /\ ~Serving
    /\ tool_call' = [tool |-> tool, items |-> paths, i |-> 1, results |-> <<>>,
                     outcome |-> "running", error |-> ""]
    /\ backend_log' = <<>>
    /\ UNCHANGED << authVars, rateVars, watchVars, db, procs, next_chunk >>

\* one turn of the loop of a batch tool: the element is validated, then the
\* store is called for it, and its result is pushed
batch_element(io) ==
    /\ Serving
    /\ tool_call.tool \in BatchTools
    /\ tool_call.i <= Len(tool_call.items)
    /\ LET path == tool_call.items[tool_call.i]
           err == validate_note_path(path) IN
       IF err /= ""
       THEN /\ io = <<FALSE>>
            /\ backend_log' = backend_log
            /\ tool_call' = [tool_call EXCEPT
                    !.i = @ + 1,
                    !.results = push(@, [path |-> path, success |-> FALSE,
                                         error |-> Some(err)])]
       ELSE /\ io \in IoOutcomes(tool_call.tool)
            /\ backend_log' = backend_log
                                \o Logged(tool_call.tool, Some(path), tool_call.i, io)
            /\ tool_call' = [tool_call EXCEPT
                    !.i = @ + 1,
                    !.results = push(@, [path |-> path, success |-> io[Len(io)],
                                         error |-> IF io[Len(io)] THEN None
                                                   ELSE Some("backend error")])]
    /\ UNCHANGED << authVars, rateVars, watchVars, db, procs, next_chunk >>

\* after the loop: the results are serialised and the call succeeds
batch_finish ==
    /\ Serving
    /\ tool_call.tool \in BatchTools
    /\ tool_call.i > Len(tool_call.items)
    /\ tool_call' = [tool_call EXCEPT !.outcome = "success"]
    /\ UNCHANGED backend_log
    /\ UNCHANGED << authVars, rateVars, watchVars, db, procs, next_chunk >>

NextTools ==
    \/ \E tool \in SingleTools : \E req \in ToolRequests(tool) : tool_enter(tool, req)
    \/ \E io \in UNION { [1..k -> BOOLEAN] : k \in 1..2 } : tool_io(io)
    \/ \E tool \in BatchTools :
         \E paths \in UNION { [1..k -> ToolPaths] : k \in 0..MaxBatch } :
            batch_enter(tool, paths)
    \/ \E io \in UNION { [1..k -> BOOLEAN] : k \in 1..2 } : batch_element(io)
    \/ batch_finish

SpecTools == Init /\ [][NextTools]_vars

\* C16: every tool that takes a path validates it before any call to the
\* document store, each element of a batch included: no call about a path
\* that fails validation is ever made.
C16_ValidatedBeforeIo ==
    \A k \in DOMAIN backend_log :
        backend_log[k].path /= None =>
            validate_note_path(Unwrap(backend_log[k].path)) = ""

\* a batch with an invalid element has made a call for a later, valid one
C16_Witness ==
    /\ tool_call.tool \in BatchTools
    /\ \E j \in DOMAIN tool_call.items : \E k \in DOMAIN backend_log :
          /\ j < backend_log[k].index
          /\ validate_note_path(tool_call.items[j]) /= ""


\* element k of the batch being served failed: its path was refused or a
\* call made for it was failed by the store
ElementFailed(k) ==
    \/ validate_note_path(tool_call.items[k]) /= ""
    \/ \E e \in DOMAIN backend_log : backend_log[e].index = k /\ ~backend_log[e].ok

\* C17: a batch tool handles its elements in input order and gives one result
\* per element in that order, result k naming the path of input k; an element
\* that fails validation or whose store call fails gets success = false and
\* an error, and only that element; the elements after it are still
\* executed, and the call as a whole succeeds.
C17_BatchResults ==
    tool_call.tool \in BatchTools =>
        /\ Len(tool_call.results) = tool_call.i - 1
        /\ \A k \in DOMAIN tool_call.results :
              /\ tool_call.results[k].path = tool_call.items[k]
              /\ tool_call.results[k].success <=> ~ElementFailed(k)
              /\ tool_call.results[k].success <=> tool_call.results[k].error = None
              /\ validate_note_path(tool_call.items[k]) = ""
                    => \E e \in DOMAIN backend_log : backend_log[e].index = k
        /\ \A e, f \in DOMAIN backend_log :
              e <= f => backend_log[e].index <= backend_log[f].index
        /\ tool_call.outcome \in {"running", "success"}
        /\ tool_call.outcome = "success" => Len(tool_call.results) = Len(tool_call.items)

\* a batch has succeeded in which an element failed in the store, the next
\* was refused by validation, and the one after succeeded
C17_Witness ==
    /\ tool_call.tool \in BatchTools
    /\ tool_call.outcome = "success"
    /\ Len(tool_call.results) = 3
    /\ validate_note_path(tool_call.items[1]) = ""
    /\ ~tool_call.results[1].success
    /\ validate_note_path(tool_call.items[2]) /= ""
    /\ tool_call.results[3].success
    /\ tool_call.items[3] /= tool_call.items[1]


(* ------------------------------------------------------------------ *)
(* Chunking: SpecChunks. A content is the sequence of its characters;  *)
(* what a String holds is the sequence of its UTF-8 bytes, each byte   *)
(* written as the character it belongs to and its position in it.      *)
(* ------------------------------------------------------------------ *)

CHUNK_SIZE == 32

MaxPad == 9

MaxTail == 3

\* char::len_utf8 of the characters of the model: a, e-acute, the euro
\* sign, an emoji; and the space, m, M, k, the full stop and the Kelvin sign
len_utf8(ch) ==
    CASE ch = "a" -> 1 [] ch = "U+00E9" -> 2 [] ch = "U+20AC" -> 3 [] ch = "U+1F600" -> 4
      [] ch \in {" ", "m", "M", "k", "."} -> 1 [] ch = "U+212A" -> 3

utf8(ch) == [i \in 1..len_utf8(ch) |-> [ch |-> ch, i |-> i]]

RECURSIVE concat(_)
\* String::push_str over a sequence of strings
concat(strings) ==
    IF strings = <<>> THEN <<>> ELSE Head(strings) \o concat(Tail(strings))

\* the contents: a run of one character before or after a few characters of
\* any width
Contents ==
    LET pads == { [i \in 1..n |-> c] :
                    n \in 0..MaxPad, c \in {"a", "U+00E9", "U+1F600"} }
        tails == UNION { [1..k -> {"a", "U+00E9", "U+20AC", "U+1F600"}] : k \in 0..MaxTail } IN
    { pad \o tail : pad \in pads, tail \in tails }
        \cup { tail \o pad : pad \in pads, tail \in tails }

RECURSIVE split_loop(_, _, _)
\* the loop of split_into_chunks from character k on, and what follows it;
\* st holds chunks and current_chunk
split_loop(content, k, st) ==
    IF k > Len(content)
    THEN IF st.current_chunk /= <<>> \/ st.chunks = <<>>
         THEN Append(st.chunks, st.current_chunk) ELSE st.chunks
    ELSE LET ch_len == len_utf8(content[k])
             seal == Len(st.current_chunk) + ch_len > CHUNK_SIZE
                     /\ st.current_chunk /= <<>> IN
         split_loop(content, k + 1,
                    IF seal
                    THEN [chunks |-> Append(st.chunks, st.current_chunk),
                          current_chunk |-> utf8(content[k])]
                    ELSE [chunks |-> st.chunks,
                          current_chunk |-> st.current_chunk \o utf8(content[k])])

\* a split every CHUNK_SIZE bytes, wherever that falls
split_into_chunks_bytes(content) ==
    LET bytes == concat([k \in 1..Len(content) |-> utf8(content[k])])
        n == IF bytes = <<>> THEN 1 ELSE (Len(bytes) + CHUNK_SIZE - 1) \div CHUNK_SIZE
        upto(j) == IF j * CHUNK_SIZE < Len(bytes) THEN j * CHUNK_SIZE ELSE Len(bytes) IN
    [j \in 1..n |-> [id |-> j, data |-> SubSeq(bytes, (j - 1) * CHUNK_SIZE + 1, upto(j))]]

\* split_into_chunks: the chunks in order; id j stands for the j-th id that
\* generate_chunk_id() gives in the call
split_into_chunks(content) ==
    LET data == split_loop(content, 1, [chunks |-> <<>>, current_chunk |-> <<>>]) IN
    [j \in 1..Len(data) |-> [id |-> j, data |-> data[j]]]

\* one call, on any content
chunk_split(content) ==
    /\ last = NoCall
    /\ last' = [op |-> "split_into_chunks", content |-> content,
                chunks |-> split_into_chunks(content)]
    /\ UNCHANGED << ext, pending, insertion_order, clients, consent_pin, now,
                    next_uuid, registrations, inflight, session_codes, auth_codes,
                    rejected, sent, taken, tokens >>

NextChunks == \E content \in Contents : chunk_split(content)

SpecChunks == Init /\ [][NextChunks]_vars

\* C18: split_into_chunks gives at least one chunk: exactly one, empty, for
\* the empty content, and no empty chunk otherwise; no chunk is longer than
\* 32 bytes, no chunk begins or ends inside a multi-byte character, and the
\* chunks' data put together in order (decode_content) are the content.
C18_SplitRoundTrip ==
    last.op = "split_into_chunks" =>
        LET chunks == last.chunks
            bytes == concat([k \in 1..Len(last.content) |-> utf8(last.content[k])]) IN
        /\ Len(chunks) >= 1
        /\ last.content = <<>> => Len(chunks) = 1 /\ chunks[1].data = <<>>
        /\ last.content /= <<>> => \A j \in DOMAIN chunks : chunks[j].data /= <<>>
        /\ \A j \in DOMAIN chunks :
              /\ Len(chunks[j].data) <= 32
              /\ chunks[j].data /= <<>> =>
                    /\ chunks[j].data[1].i = 1
                    /\ LET b == chunks[j].data[Len(chunks[j].data)] IN b.i = len_utf8(b.ch)
        /\ concat([j \in DOMAIN chunks |-> chunks[j].data]) = bytes

\* a content was split into two chunks or more, the first sealed short of
\* 32 bytes because the next character did not fit
C18_Witness ==
    /\ last.op = "split_into_chunks"
    /\ Len(last.chunks) >= 2
    /\ Len(last.chunks[1].data) < 32


(* ------------------------------------------------------------------ *)
(* CouchDbClient::save_note and delete_note: SpecStore. db is the      *)
(* database: the note documents by id and the chunk documents by id    *)
(* (chunk id k is the k-th value of generate_chunk_id). A revision is  *)
(* a number; the database accepts a PUT of a note only with the        *)
(* revision it holds (none for a new document) and answers 409         *)
(* otherwise. Calls run concurrently, one step per request they await; *)
(* the database may fail any request, and a call that crashes is one   *)
(* that takes no further step.                                         *)
(* ------------------------------------------------------------------ *)

MaxChunkIds == 4

MaxRev == 2

NoteIds == {"a.md"}

\* contents of one chunk (empty) and of two (nine four-byte characters)
SaveContents == { <<>>, [i \in 1..9 |-> "U+1F600"] }

\* get_note: the NoteDoc, with the revision the database holds; None for 404
get_note(id) ==
    IF id \in DOMAIN db.notes
    THEN Some([db.notes[id] EXCEPT !.rev = Some(@)]) ELSE None

\* the database's answer to PUT of a note document: its revision check
put_accepted(id, rev) ==
    IF id \in DOMAIN db.notes THEN rev = Some(db.notes[id].rev) ELSE rev = None

\* the note documents after an accepted PUT of doc
put_note(doc) ==
    LET rev == IF doc.id \in DOMAIN db.notes THEN db.notes[doc.id].rev + 1 ELSE 1 IN
    MapInsert(db.notes, doc.id, [doc EXCEPT !.rev = rev])

\* the requests of save_note after get_note, with the old chunks deleted
\* before the parent is written
save_plan_delete_first(existing, chunk_ids) ==
    [j \in 1..Len(chunk_ids) |-> [req |-> "put_leaf", chunk |-> chunk_ids[j]]]
      \o (IF IsSome(existing)
          THEN [j \in 1..Len(Unwrap(existing).children) |->
                   [req |-> "delete_leaf", chunk |-> Unwrap(existing).children[j]]]
          ELSE <<>>)
      \o << [req |-> "put_parent", chunk |-> 0] >>

\* the requests of save_note after get_note, in the order it sends them:
\* the new chunks, the parent, the old chunks
save_plan(existing, chunk_ids) ==
    [j \in 1..Len(chunk_ids) |-> [req |-> "put_leaf", chunk |-> chunk_ids[j]]]
      \o << [req |-> "put_parent", chunk |-> 0] >>
      \o (IF IsSome(existing)
          THEN [j \in 1..Len(Unwrap(existing).children) |->
                   [req |-> "delete_leaf", chunk |-> Unwrap(existing).children[j]]]
          ELSE <<>>)

\* the NoteDoc save_note writes
saved_doc(id, existing, t, chunks) ==
    [id |-> id,
     rev |-> IF IsSome(existing) THEN Unwrap(existing).rev ELSE None,
     path |-> id, data |-> "",
     ctime |-> IF IsSome(existing) THEN Unwrap(existing).ctime ELSE t,
     mtime |-> t,
     size |-> Len(concat([j \in DOMAIN chunks |-> chunks[j].data])),
     doc_type |-> "plain",
     children |-> [j \in DOMAIN chunks |-> chunks[j].id],
     deleted |-> None, eden |-> "{}"]

\* the NoteDoc delete_note writes, without the children
deleted_doc_bare(existing, t) ==
    [existing EXCEPT !.mtime = t, !.deleted = Some(TRUE), !.children = <<>>]

\* the NoteDoc delete_note writes
deleted_doc(existing, t) ==
    [id |-> existing.id, rev |-> existing.rev, path |-> existing.path,
     data |-> existing.data, ctime |-> existing.ctime, mtime |-> t,
     size |-> existing.size, doc_type |-> existing.doc_type,
     children |-> existing.children, deleted |-> Some(TRUE), eden |-> existing.eden]

Running(p) == procs[p].op /= "idle" /\ procs[p].result = "running"

\* a call is served by a task of its own; the slots are not visible to the
\* program, so the lowest one without a call under way is taken
FreeProc(p) == ~Running(p) /\ \A q \in 1..MaxProcs : q < p => Running(q)

\* save_note up to the first save_leaf: get_note(id).await.ok(), now_ms,
\* split_into_chunks; got is whether the GET was answered
save_begin(p, id, content, got) ==
    /\ FreeProc(p)
    /\ id \in DOMAIN db.notes => db.notes[id].rev < MaxRev
    /\ LET existing == IF got THEN get_note(id) ELSE None
           split == split_into_chunks(content)
           chunks == [j \in DOMAIN split |->
                        [id |-> next_chunk + split[j].id - 1, data |-> split[j].data]]
           chunk_ids == [j \in DOMAIN chunks |-> chunks[j].id] IN
       /\ next_chunk + Len(chunks) - 1 <= MaxChunkIds
       /\ next_chunk' = next_chunk + Len(chunks)
       /\ procs' = [procs EXCEPT ![p] =
              [op |-> "save_note", id |-> id, existing |-> existing, chunks |-> chunks,
               doc |-> saved_doc(id, existing, now, chunks),
               plan |-> save_plan(existing, chunk_ids), k |-> 1,
               saved |-> {}, parent_written |-> FALSE, deleted |-> {},
               result |-> "running"]]
    /\ UNCHANGED << authVars, rateVars, watchVars, tool_call, backend_log, db >>

\* the next request of save_note and its answer; ok is whether the database
\* served it
save_step(p, ok) ==
    /\ Running(p)
    /\ procs[p].op = "save_note"
    /\ LET me == procs[p]
           r == me.plan[me.k]
           last_one == me.k = Len(me.plan)
           next == [me EXCEPT !.k = @ + 1,
                              !.result = IF last_one THEN "ok" ELSE "running"]
           failed == [me EXCEPT !.result = "error"] IN
       CASE r.req = "put_leaf" ->
              IF ok
              THEN /\ db' = [db EXCEPT !.leaves =
                                MapInsert(@, r.chunk,
                                          me.chunks[CHOOSE j \in DOMAIN me.chunks :
                                                       me.chunks[j].id = r.chunk].data)]
                   /\ procs' = [procs EXCEPT ![p] = [next EXCEPT !.saved = @ \cup {r.chunk}]]
              ELSE /\ db' = db
                   /\ procs' = [procs EXCEPT ![p] = failed]
         [] r.req = "put_parent" ->
              IF ok /\ put_accepted(me.id, me.doc.rev)
              THEN /\ db' = [db EXCEPT !.notes = put_note(me.doc)]
                   /\ procs' = [procs EXCEPT ![p] = [next EXCEPT !.parent_written = TRUE]]
              ELSE /\ db' = db
                   /\ procs' = [procs EXCEPT ![p] = failed]
         [] r.req = "delete_leaf" ->
              /\ db' = IF ok /\ r.chunk \in DOMAIN db.leaves
                       THEN [db EXCEPT !.leaves = MapRemove(@, r.chunk)]
                       ELSE db
              /\ procs' = [procs EXCEPT ![p] = [next EXCEPT !.deleted = @ \cup {r.chunk}]]
    /\ UNCHANGED << authVars, rateVars, watchVars, tool_call, backend_log, next_chunk >>

\* delete_note up to its PUT: get_note(id).await?, the NoteDoc with now_ms
delete_begin(p, id, got) ==
    /\ FreeProc(p)
    /\ id \in DOMAIN db.notes => db.notes[id].rev < MaxRev
    /\ LET existing == IF got THEN get_note(id) ELSE None IN
       procs' = [procs EXCEPT ![p] =
          IF IsSome(existing)
          THEN [op |-> "delete_note", id |-> id, existing |-> existing,
                doc |-> deleted_doc(Unwrap(existing), now), result |-> "running"]
          ELSE [op |-> "delete_note", id |-> id, existing |-> existing,
                doc |-> None, result |-> "error"]]
    /\ UNCHANGED << authVars, rateVars, watchVars, tool_call, backend_log, db, next_chunk >>

\* the PUT of delete_note and its answer
delete_put(p, ok) ==
    /\ Running(p)
    /\ procs[p].op = "delete_note"
    /\ IF ok /\ put_accepted(procs[p].id, procs[p].doc.rev)
       THEN /\ db' = [db EXCEPT !.notes = put_note(procs[p].doc)]
            /\ procs' = [procs EXCEPT ![p].result = "ok"]
       ELSE /\ db' = db
            /\ procs' = [procs EXCEPT ![p].result = "error"]
    /\ UNCHANGED << authVars, rateVars, watchVars, tool_call, backend_log, next_chunk >>

NextStore ==
    \/ \E p \in 1..MaxProcs : \E id \in NoteIds : \E content \in SaveContents :
         \E got \in BOOLEAN : save_begin(p, id, content, got)
    \/ \E p \in 1..MaxProcs : \E ok \in BOOLEAN : save_step(p, ok)
    \/ \E p \in 1..MaxProcs : \E id \in NoteIds : \E got \in BOOLEAN :
         delete_begin(p, id, got)
    \/ \E p \in 1..MaxProcs : \E ok \in BOOLEAN : delete_put(p, ok)
    \/ Tick

SpecStore == Init /\ [][NextStore]_vars

\* C19: save_note has written all its new chunks when it writes the parent,
\* and deletes an old chunk only after its parent write succeeded; and in
\* every state, whatever calls are under way, have failed or have stopped,
\* every chunk id among the children of a stored note is the id of a stored
\* chunk.
C19_NoDanglingChildren ==
    /\ \A p \in 1..MaxProcs :
          procs[p].op = "save_note" =>
             /\ procs[p].parent_written =>
                   \A j \in DOMAIN procs[p].chunks : procs[p].chunks[j].id \in procs[p].saved
             /\ procs[p].deleted /= {} => procs[p].parent_written
    /\ \A id \in DOMAIN db.notes :
          \A j \in DOMAIN db.notes[id].children :
             db.notes[id].children[j] \in DOMAIN db.leaves

\* a save_note has replaced a note and deleted an old chunk of it, while
\* another call on the same path ended in an error
C19_Witness ==
    \E p, q \in 1..MaxProcs :
        /\ p /= q
        /\ procs[p].op = "save_note"
        /\ procs[p].deleted /= {}
        /\ procs[p].deleted \cap DOMAIN db.leaves = {}
        /\ procs[q].op \in {"save_note", "delete_note"}
        /\ procs[q].id = procs[p].id
        /\ procs[q].result = "error"

\* C20: a step that ends a delete_note call either writes the note with
\* deleted = true and the call's clock reading as mtime, under the revision
\* the database held, every other field of the note, every other note and
\* every chunk left as they were; or it returns an error and leaves the
\* database as it was, which is what happens when the note does not exist
\* or the write fails.
C20_Step ==
    \A p \in 1..MaxProcs :
        (procs'[p] /= procs[p] /\ procs'[p].op = "delete_note"
            /\ procs'[p].result /= "running") =>
           LET id == procs'[p].id IN
           IF procs'[p].result = "ok"
           THEN /\ id \in DOMAIN db.notes
                /\ Unwrap(procs[p].existing).rev = Some(db.notes[id].rev)
                /\ db'.leaves = db.leaves
                /\ db'.notes = [db.notes EXCEPT ![id] =
                                  [@ EXCEPT !.deleted = Some(TRUE),
                                            !.mtime = procs[p].doc.mtime,
                                            !.rev = @ + 1]]
           ELSE db' = db

C20_SoftDelete == [][C20_Step]_vars

\* a delete_note call has ended well on a note that has chunks
C20_Witness ==
    \E p \in 1..MaxProcs :
        /\ procs[p].op = "delete_note"
        /\ procs[p].result = "ok"
        /\ db.notes[procs[p].id].deleted = Some(TRUE)
        /\ db.notes[procs[p].id].children /= <<>>
        /\ \A j \in DOMAIN db.notes[procs[p].id].children :
              db.notes[procs[p].id].children[j] \in DOMAIN db.leaves

(* ------------------------------------------------------------------ *)
(* AuthorizationStore::cleanup_expired, under SpecLRU                  *)
(* ------------------------------------------------------------------ *)

\* the codes whose record was created 600 seconds or more before the clock
\* reading t
Old600(t) == {c \in DOMAIN pending : pending[c].created_at + 600 <= t}

\* C26: a call of cleanup_expired removes from the map exactly the entries
\* created 600 seconds or more before the call and leaves the other records
\* as they were, so that no such entry remains; the insertion-order queue
\* afterwards is the queue before without the removed codes, the codes that
\* stay in the order they had.
C26_Step ==
    (last'.op = "cleanup_expired" /\ now' = now) =>
        LET old == Old600(now) IN
        /\ DOMAIN pending' = DOMAIN pending \ old
        /\ \A c \in DOMAIN pending' :
              pending'[c] = pending[c] /\ pending'[c].created_at + 600 > now
        /\ insertion_order' = SelectSeq(insertion_order, LAMBDA c : c \notin old)
        /\ \A i \in DOMAIN insertion_order' : insertion_order'[i] \in DOMAIN pending'

C26_CleanupExact == [][C26_Step]_vars

\* cleanup_expired ran 600 seconds after the first records were stored: they
\* are gone, and the records stored since are what the map and the queue hold
C26_Witness ==
    /\ last.op = "cleanup_expired"
    /\ now = EXPIRY_SECS
    /\ pending /= EmptyMap
    /\ \A c \in DOMAIN pending : pending[c].created_at = now
    /\ Len(insertion_order) = Cardinality(DOMAIN pending)

(* ------------------------------------------------------------------ *)
(* CouchDbClient::list_notes: SpecList. Document ids are sequences of  *)
(* characters. db.rows holds the rows of _all_docs that are neither    *)
(* notes nor chunks written by this program: system documents and the  *)
(* rows of documents deleted at the database, written by its peers.    *)
(* ------------------------------------------------------------------ *)

\* str::starts_with for a pattern given as a sequence
starts_with(s, pat) == Len(s) >= Len(pat) /\ SubSeq(s, 1, Len(pat)) = pat

\* note ids that look like the ids list_notes drops: an h without a colon,
\* an underscore that is not in front
ListIds == { <<"h", "a">>, <<"a", "_">> }

\* the id of the chunk document of chunk k
leaf_id(k) == <<"h", ":", k>>

\* AllDocsRow of a design document, of a document deleted at the database and
\* of a note a peer has marked deleted
OtherRows ==
    { [id |-> <<"_", "d">>, deleted |-> FALSE, doc |-> Some([deleted |-> None])],
      [id |-> <<"t">>, deleted |-> TRUE, doc |-> None],
      [id |-> <<"t", "2">>, deleted |-> FALSE, doc |-> Some([deleted |-> Some(TRUE)])] }

\* the rows the database answers GET _all_docs?include_docs=true with
all_docs(d) ==
    { [id |-> id, deleted |-> FALSE, doc |-> Some([deleted |-> d.notes[id].deleted])] :
         id \in DOMAIN d.notes }
      \cup { [id |-> leaf_id(k), deleted |-> FALSE, doc |-> Some([deleted |-> None])] :
                k \in DOMAIN d.leaves }
      \cup d.rows

\* list_notes that drops chunks, system documents and tombstones only
list_notes_keep_soft(rows) ==
    { row.id : row \in { r \in rows :
        /\ ~starts_with(r.id, <<"h", ":">>)
        /\ ~starts_with(r.id, <<"_">>)
        /\ ~r.deleted } }

\* the filter of list_notes over the rows, and the ids it collects
list_notes(rows) ==
    { row.id : row \in { r \in rows :
        /\ ~starts_with(r.id, <<"h", ":">>)
        /\ ~starts_with(r.id, <<"_">>)
        /\ ~r.deleted
        /\ ~(IsSome(r.doc) /\ Unwrap(r.doc).deleted = Some(TRUE)) } }

\* the paths P of which a delete_note(P) returned Ok and whose document has
\* not been written since
DeletedPaths ==
    { P \in DOMAIN db.notes :
        \E p \in 1..MaxProcs :
            /\ procs[p].op = "delete_note" /\ procs[p].result = "ok"
            /\ procs[p].id = P
            /\ Some(db.notes[P].rev - 1) = Unwrap(procs[p].existing).rev }

\* a peer of the database writes a row
peer_put(row) ==
    /\ row \notin db.rows
    /\ db' = [db EXCEPT !.rows = @ \cup {row}]
    /\ UNCHANGED << authVars, rateVars, watchVars, tool_call, backend_log, procs,
                    next_chunk >>

\* one call of list_notes that the database answers
list_call ==
    /\ last = NoCall
    /\ last' = [op |-> "list_notes", db |-> db, deleted_paths |-> DeletedPaths,
                result |-> list_notes(all_docs(db))]
    /\ UNCHANGED << ext, pending, insertion_order, clients, consent_pin, now,
                    next_uuid, registrations, inflight, session_codes, auth_codes,
                    rejected, sent, taken, tokens >>

\* the calls and the writes that come before the one call of list_notes
NextList ==
    \/ \E row \in OtherRows : last = NoCall /\ peer_put(row)
    \/ list_call
    \/ \E id \in ListIds : \E got \in BOOLEAN :
         last = NoCall /\ save_begin(1, id, <<>>, got)
    \/ \E ok \in BOOLEAN : last = NoCall /\ save_step(1, ok)
    \/ \E id \in ListIds : \E got \in BOOLEAN : last = NoCall /\ delete_begin(1, id, got)
    \/ \E ok \in BOOLEAN : last = NoCall /\ delete_put(1, ok)

SpecList == Init /\ [][NextList]_vars

\* C21: what list_notes returns is exactly the ids of the stored notes whose
\* document does not have deleted = true: no chunk document, no system
\* document, no document deleted at the database and no soft-deleted note
\* is in it, and a path whose delete_note returned Ok is not in it as long
\* as the note has not been saved again.
C21_ListExact ==
    last.op = "list_notes" =>
        /\ last.result = { id \in DOMAIN last.db.notes :
                              last.db.notes[id].deleted /= Some(TRUE) }
        /\ \A k \in DOMAIN last.db.leaves : leaf_id(k) \notin last.result
        /\ \A row \in last.db.rows : row.id \notin last.result
        /\ last.deleted_paths \cap last.result = {}

\* list_notes was called on a database with chunks, a system document, a
\* tombstone, a note deleted by delete_note and a note that is not deleted
C21_Witness ==
    /\ last.op = "list_notes"
    /\ last.deleted_paths /= {}
    /\ last.result /= {}
    /\ last.db.leaves /= EmptyMap
    /\ last.db.rows = OtherRows

(* ------------------------------------------------------------------ *)
(* CouchDbClient::decode_content: SpecDecode. A result is Ok with the  *)
(* content, a sequence of characters, or Err.                          *)
(* ------------------------------------------------------------------ *)

Ok(v) == [ok |-> TRUE, value |-> v]

Err(e) == [ok |-> FALSE, error |-> e]

\* BASE64.decode (the standard alphabet, padding required) on the data of
\* the model: nothing, "a", e-acute, the byte 0xFF, and "a" without padding
BASE64_decode(data) ==
    CASE data = ""     -> Ok(<<>>)
      [] data = "YQ==" -> Ok(<<97>>)
      [] data = "w6k=" -> Ok(<<195, 169>>)
      [] data = "/w==" -> Ok(<<255>>)
      [] OTHER         -> Err("base64")

\* String::from_utf8 on the byte strings above
from_utf8(bytes) ==
    CASE bytes = <<>>         -> Ok(<<>>)
      [] bytes = <<97>>       -> Ok(<<"a">>)
      [] bytes = <<195, 169>> -> Ok(<<"U+00E9">>)
      [] OTHER                -> Err("utf8")

\* the chunk documents decode_content reads from, by chunk id
DecodeLeaves == [k \in {1, 2} |-> IF k = 1 THEN <<"a", "b">> ELSE <<"c">>]

\* get_leaf that takes a chunk the database does not hold for an empty one
get_leaf_lenient(leaves, chunk_id) ==
    IF chunk_id \in DOMAIN leaves THEN Ok(leaves[chunk_id]) ELSE Ok(<<>>)

\* get_leaf: the data of the chunk document, or the error of a failed GET
get_leaf(leaves, chunk_id) ==
    IF chunk_id \in DOMAIN leaves THEN Ok(leaves[chunk_id]) ELSE Err("chunk")

RECURSIVE push_chunks(_, _, _)
\* the for loop of decode_content over doc.children, from content on
push_chunks(leaves, children, content) ==
    IF children = <<>> THEN Ok(content)
    ELSE LET chunk_content == get_leaf(leaves, Head(children)) IN
         IF chunk_content.ok
         THEN push_chunks(leaves, Tail(children), content \o chunk_content.value)
         ELSE chunk_content

decode_content(leaves, doc) ==
    IF doc.doc_type = "notes"
    THEN LET bytes == BASE64_decode(doc.data) IN
         IF bytes.ok THEN from_utf8(bytes.value) ELSE bytes
    ELSE push_chunks(leaves, doc.children, <<>>)

\* the documents decode_content is called with: every type the database may
\* hold, children that are there or missing, in either order
DecodeDocs ==
    [doc_type : {"plain", "newnote", "notes", "other"},
     data : {"", "YQ==", "w6k=", "/w==", "YQ"},
     children : UNION { [1..n -> 1..3] : n \in 0..2 }]

\* one call
decode_call(doc) ==
    /\ last = NoCall
    /\ last' = [op |-> "decode_content", doc |-> doc,
                result |-> decode_content(DecodeLeaves, doc)]
    /\ UNCHANGED << ext, pending, insertion_order, clients, consent_pin, now,
                    next_uuid, registrations, inflight, session_codes, auth_codes,
                    rejected, sent, taken, tokens >>

NextDecode == \E doc \in DecodeDocs : decode_call(doc)

SpecDecode == Init /\ [][NextDecode]_vars

\* C22: decode_content gives, for doc_type = plain, the data of the chunks
\* named by children put together in that order; for doc_type = notes, the
\* base64 decoding of the document's own data; and an error for every
\* doc_type that is none of plain, newnote and notes.
C22_DecodeByType ==
    last.op = "decode_content" =>
        LET doc == last.doc IN
        /\ (doc.doc_type = "plain"
              /\ \A j \in DOMAIN doc.children : doc.children[j] \in DOMAIN DecodeLeaves)
             => last.result = Ok(concat([j \in DOMAIN doc.children |->
                                           DecodeLeaves[doc.children[j]]]))
        /\ (doc.doc_type = "notes" /\ doc.data = "w6k=")
             => last.result = Ok(<<"U+00E9">>)
        /\ doc.doc_type \notin {"plain", "newnote", "notes"} => ~last.result.ok

(* ------------------------------------------------------------------ *)
(* SearchIndex: SpecSearch. A u32 is written as its two 16-bit halves, *)
(* hi * 65536 + lo. The score nucleo gives a text for the query is a   *)
(* property of the text: the texts of the model are named after it.    *)
(* ------------------------------------------------------------------ *)

U16 == 65536

u32(hi, lo) == [hi |-> hi, lo |-> lo]

U32_MAX == u32(U16 - 1, U16 - 1)

\* u32::saturating_add
saturating_add(a, b) ==
    LET lo == a.lo + b.lo
        hi == a.hi + b.hi + lo \div U16 IN
    IF hi >= U16 THEN U32_MAX ELSE u32(hi, lo % U16)

\* u32::saturating_mul by a small factor
saturating_mul(a, n) ==
    LET lo == a.lo * n
        hi == a.hi * n + lo \div U16 IN
    IF hi >= U16 THEN U32_MAX ELSE u32(hi, lo % U16)

\* Ord for u32: a < b
u32_lt(a, b) == a.hi < b.hi \/ (a.hi = b.hi /\ a.lo < b.lo)

\* Pattern::score of the query "q" on the texts of the model: no match, a
\* small score, twice that, a score whose double does not fit in a u32, and
\* the largest score whose double does
pattern_score(text) ==
    CASE text = "miss"  -> None
      [] text = "seven" -> Some(u32(0, 7))
      [] text = "two sevens" -> Some(u32(0, 14))
      [] text = "huge"  -> Some(u32(40000, 0))
      [] text = "half"  -> Some(u32(32767, 65535))

Titles == {"miss", "seven", "huge", "half"}

SearchContents == {"miss", "seven", "two sevens"}

SearchPaths == {"a.md", "b.md", "c.md"}

NoteEntries(path) ==
    [path : {path}, title : Titles, content : SearchContents, mtime : {0}]

\* the match in the filter_map closure of search
combined_score(title_score, content_score) ==
    CASE IsSome(title_score) /\ IsSome(content_score) ->
            Some(saturating_add(saturating_mul(Unwrap(title_score), 2),
                                Unwrap(content_score)))
      [] IsSome(title_score) /\ ~IsSome(content_score) ->
            Some(saturating_mul(Unwrap(title_score), 2))
      [] ~IsSome(title_score) /\ IsSome(content_score) -> content_score
      [] OTHER -> None

\* the closure of filter_map: the SearchResult of a note, if it has one (the
\* snippet is left out)
search_result(note, opts) ==
    LET title_score == pattern_score(note.title)
        content_score == IF opts.search_content THEN pattern_score(note.content)
                         ELSE None
        combined == combined_score(title_score, content_score) IN
    IF IsSome(combined)
    THEN Some([path |-> note.path, title |-> note.title, score |-> Unwrap(combined)])
    ELSE None

RECURSIVE sort_by_score(_)
\* results.sort_by(|a, b| b.score.cmp(&a.score)): descending, and stable
sort_by_score(results) ==
    IF results = <<>> THEN <<>>
    ELSE LET rest == sort_by_score(Tail(results))
             before == { i \in DOMAIN rest : u32_lt(Head(results).score, rest[i].score) }
             n == Cardinality(before) IN
         SubSeq(rest, 1, n) \o << Head(results) >> \o SubSeq(rest, n + 1, Len(rest))

\* Vec::truncate
truncate(s, len) == IF len < Len(s) THEN SubSeq(s, 1, len) ELSE s

\* search that cuts the results to the limit before it sorts them
search_truncate_first(values, query, opts) ==
    IF query = "" THEN <<>>
    ELSE LET found == [i \in DOMAIN values |-> search_result(values[i], opts)]
             results == SelectSeq(found, IsSome) IN
         sort_by_score(truncate([i \in DOMAIN results |-> Unwrap(results[i])], opts.limit))

\* SearchIndex::search; values is self.notes.values(), in the order the
\* HashMap iterates
search(values, query, opts) ==
    IF query = "" THEN <<>>
    ELSE LET found == [i \in DOMAIN values |-> search_result(values[i], opts)]
             results == SelectSeq(found, IsSome) IN
         truncate(sort_by_score([i \in DOMAIN results |-> Unwrap(results[i])]), opts.limit)

\* the orders a HashMap with these keys may iterate in
Orders(keys) ==
    { o \in [1..Cardinality(keys) -> keys] : \A i, j \in DOMAIN o : o[i] = o[j] => i = j }

SearchOptions == [limit : {0, 1, 2, 20}, search_content : BOOLEAN]

\* SearchIndex::upsert
upsert(idx, path, entry) == [idx EXCEPT !.notes = MapInsert(@, path, entry)]

\* SearchIndex::remove
remove(idx, path) == [idx EXCEPT !.notes = MapRemove(@, path)]

\* SearchIndex::clear
clear(idx) == [notes |-> EmptyMap, last_seq |-> None]

index_upsert(path, entry) ==
    /\ last = NoCall
    /\ search_index' = upsert(search_index, path, entry)
    /\ UNCHANGED << authVars, rateVars, docVars, index_lock, watcher, cancel, couch >>

index_remove(path) ==
    /\ last = NoCall
    /\ path \in DOMAIN search_index.notes
    /\ search_index' = remove(search_index, path)
    /\ UNCHANGED << authVars, rateVars, docVars, index_lock, watcher, cancel, couch >>

\* one call of search, the HashMap iterating in some order
search_call(order, query, opts) ==
    /\ last = NoCall
    /\ last' = [op |-> "search", query |-> query, opts |-> opts,
                result |-> search([i \in DOMAIN order |-> search_index.notes[order[i]]],
                                  query, opts)]
    /\ UNCHANGED << ext, pending, insertion_order, clients, consent_pin, now,
                    next_uuid, registrations, inflight, session_codes, auth_codes,
                    rejected, sent, taken, tokens >>

NextSearch ==
    \/ \E path \in SearchPaths : \E entry \in NoteEntries(path) : index_upsert(path, entry)
    \/ \E path \in SearchPaths : index_remove(path)
    \/ \E order \in Orders(DOMAIN search_index.notes) : \E query \in {"", "q"} :
         \E opts \in SearchOptions : search_call(order, query, opts)

SpecSearch == Init /\ [][NextSearch]_vars

\* the notes of the index that match the query of the last search
Matches ==
    { p \in DOMAIN search_index.notes :
        \/ pattern_score(search_index.notes[p].title) /= None
        \/ last.opts.search_content /\ pattern_score(search_index.notes[p].content) /= None }

\* twice the title score plus the content score, of the scores there are,
\* or the largest u32 if that is less
ExpectedScore(p) ==
    LET t == pattern_score(search_index.notes[p].title)
        c == IF last.opts.search_content
             THEN pattern_score(search_index.notes[p].content) ELSE None
        t_hi == IF t = None THEN 0 ELSE Unwrap(t).hi
        t_lo == IF t = None THEN 0 ELSE Unwrap(t).lo
        c_hi == IF c = None THEN 0 ELSE Unwrap(c).hi
        c_lo == IF c = None THEN 0 ELSE Unwrap(c).lo
        lo == 2 * t_lo + c_lo
        hi == 2 * t_hi + c_hi + lo \div 65536 IN
    IF hi > 65535 THEN [hi |-> 65535, lo |-> 65535] ELSE [hi |-> hi, lo |-> lo % 65536]

MaxSeq == 3

RECONNECT_SECS == 5

\* ids on the feed: two notes, a chunk document and a system document
WatchIds == { <<"a">>, <<"b">>, <<"h", ":", "1">>, <<"_", "d">> }

\* the bodies a document is written with: an active note, a note marked
\* deleted, and a document that is no NoteDoc; content is the content the
\* chunks of the note assemble to
Bodies(seq) ==
    { [kind |-> "note", deleted |-> None, content |-> seq, mtime |-> seq],
      [kind |-> "note", deleted |-> Some(TRUE), content |-> seq, mtime |-> seq],
      [kind |-> "other", deleted |-> None, content |-> 0, mtime |-> 0] }

\* the ChangeEvent of the last change of a document
ChangeEvent(id) ==
    [seq |-> couch.docs[id].seq, id |-> id, deleted |-> couch.docs[id].deleted,
     doc |-> Some(couch.docs[id].doc)]

\* the changes the feed has yet to send on a connection that has sent
\* everything up to the sequence upto
Unsent(upto) == { id \in DOMAIN couch.docs : couch.docs[id].seq > upto }

\* the next line of the stream
NextEvent(upto) ==
    ChangeEvent(CHOOSE id \in Unsent(upto) :
                  \A other \in Unsent(upto) : couch.docs[id].seq <= couch.docs[other].seq)

\* the title extract_title gives a content
TitleOf(path, content) == [of |-> content]

NoteEntry(path, content, mtime) ==
    [path |-> path, title |-> TitleOf(path, content), content |-> content,
     mtime |-> mtime]

\* the notes of the store that are live: not deleted at the database, not
\* marked deleted, a NoteDoc, and neither a chunk nor a system document
LiveNotes ==
    { id \in DOMAIN couch.docs :
        /\ ~starts_with(id, <<"h", ":">>) /\ ~starts_with(id, <<"_">>)
        /\ ~couch.docs[id].deleted
        /\ couch.docs[id].doc.kind = "note"
        /\ couch.docs[id].doc.deleted /= Some(TRUE) }

\* get_all_notes_with_content: every live note with its content and mtime,
\* and the update sequence they were read at
get_all_notes_with_content ==
    [notes |-> [id \in LiveNotes |->
                  NoteEntry(id, couch.docs[id].doc.content, couch.docs[id].doc.mtime)],
     last_seq |-> Some(couch.seq)]

\* since.as_deref().unwrap_or("now"), always "now"
since_param_now(since) == [now |-> TRUE, seq |-> 0]

\* since.as_deref().unwrap_or("now"): the sequence, or now
since_param(since) ==
    IF IsSome(since) THEN [now |-> FALSE, seq |-> Unwrap(since)]
    ELSE [now |-> TRUE, seq |-> 0]

\* where the feed starts for the since parameter of the request
feed_start(since) == IF since.now THEN couch.seq ELSE since.seq

\* the branches the select! of watch_changes may take, without the one of
\* the token
select_stream_deaf(chunk_ready, cancelled) ==
    IF chunk_ready THEN {"chunk"} ELSE {}

\* the branches the select! of watch_changes may take: those that are ready
select_stream(chunk_ready, cancelled) ==
    (IF chunk_ready THEN {"chunk"} ELSE {}) \cup (IF cancelled THEN {"cancelled"} ELSE {})

\* process_change that moves last_seq forward only for the documents it
\* skips
process_change_skip_only(idx, change, content) ==
    IF starts_with(change.id, <<"h", ":">>) \/ starts_with(change.id, <<"_">>)
    THEN [index |-> [idx EXCEPT !.last_seq = Some(change.seq)], ok |-> TRUE]
    ELSE [index |-> idx, ok |-> TRUE]

\* process_change on a parsed line; content is what decode_content returns
\* for the document of the change
process_change(idx, change, content) ==
    IF starts_with(change.id, <<"h", ":">>) \/ starts_with(change.id, <<"_">>)
    THEN [index |-> [idx EXCEPT !.last_seq = Some(change.seq)], ok |-> TRUE]
    ELSE IF change.deleted
    THEN [index |-> [remove(idx, change.id) EXCEPT !.last_seq = Some(change.seq)],
          ok |-> TRUE]
    ELSE IF IsSome(change.doc)
    THEN LET note_doc == Unwrap(change.doc) IN
         IF note_doc.kind /= "note" THEN [index |-> idx, ok |-> FALSE]
         ELSE IF note_doc.deleted = Some(TRUE)
         THEN [index |-> [remove(idx, change.id) EXCEPT !.last_seq = Some(change.seq)],
               ok |-> TRUE]
         ELSE IF ~content.ok THEN [index |-> idx, ok |-> FALSE]
         ELSE [index |-> [upsert(idx, change.id,
                                 NoteEntry(change.id, content.value, note_doc.mtime))
                            EXCEPT !.last_seq = Some(change.seq)],
               ok |-> TRUE]
    ELSE [index |-> [idx EXCEPT !.last_seq = Some(change.seq)], ok |-> TRUE]

\* full_resync, and the load in main, once the notes are there
full_resync(idx, loaded) == [notes |-> loaded.notes, last_seq |-> loaded.last_seq]

\* a client or a peer writes a document
couch_put(id, body) ==
    /\ couch.seq < MaxSeq
    /\ (starts_with(id, <<"h", ":">>) \/ starts_with(id, <<"_">>)) => body.kind = "other"
    /\ couch' = [seq |-> couch.seq + 1,
                 docs |-> MapInsert(couch.docs, id,
                            [seq |-> couch.seq + 1, deleted |-> FALSE, doc |-> body])]
    /\ UNCHANGED << authVars, rateVars, docVars, index_lock, search_index, watcher, cancel >>

\* a client or a peer deletes a document at the database
couch_delete(id) ==
    /\ couch.seq < MaxSeq
    /\ id \in DOMAIN couch.docs
    /\ ~couch.docs[id].deleted
    /\ couch' = [seq |-> couch.seq + 1,
                 docs |-> MapInsert(couch.docs, id,
                            [seq |-> couch.seq + 1, deleted |-> TRUE,
                             doc |-> [kind |-> "other", deleted |-> None,
                                      content |-> 0, mtime |-> 0]])]
    /\ UNCHANGED << authVars, rateVars, docVars, index_lock, search_index, watcher, cancel >>

\* main: the initial load, then the task is spawned
initial_load ==
    /\ watcher.pc = "loading"
    /\ search_index' = full_resync(search_index, get_all_notes_with_content)
    /\ watcher' = [watcher EXCEPT !.pc = "run"]
    /\ UNCHANGED << authVars, rateVars, docVars, index_lock, cancel, couch >>

\* run: read last_seq; watch_changes: send the request
run_top ==
    /\ watcher.pc = "run"
    /\ watcher' = [watcher EXCEPT !.pc = "get",
                                  !.since = since_param(search_index.last_seq),
                                  !.timer = 0]
    /\ UNCHANGED << authVars, rateVars, docVars, index_lock, search_index, cancel, couch >>

\* watch_changes: the answer to the request. ok: the stream opens; invalid:
\* status 400 or a body that mentions since; error: the request failed or
\* was answered another error
get_response(answer) ==
    /\ watcher.pc = "get"
    /\ watcher' =
         CASE answer = "ok" ->
                [watcher EXCEPT !.pc = "stream", !.sent = feed_start(watcher.since)]
           [] answer = "invalid" -> [watcher EXCEPT !.pc = "resync"]
           [] answer = "error" ->
                [watcher EXCEPT !.pc = "sleep", !.timer = RECONNECT_SECS,
                                !.cause = "error"]
    /\ UNCHANGED << authVars, rateVars, docVars, index_lock, search_index, cancel, couch >>

\* full_resync: the notes arrive, or the request fails; then watch_changes
\* returns what full_resync returned and run acts on it
resync_response(ok) ==
    /\ watcher.pc = "resync"
    /\ IF ok
       THEN /\ search_index' = full_resync(search_index, get_all_notes_with_content)
            /\ watcher' = [watcher EXCEPT !.pc = "stopped", !.cause = "resync"]
       ELSE /\ search_index' = search_index
            /\ watcher' = [watcher EXCEPT !.pc = "sleep", !.timer = RECONNECT_SECS,
                                          !.cause = "error"]
    /\ UNCHANGED << authVars, rateVars, docVars, index_lock, cancel, couch >>

\* watch_changes: a chunk arrives with the next line
stream_chunk ==
    /\ watcher.pc = "stream"
    /\ "chunk" \in select_stream(Unsent(watcher.sent) /= {}, cancel)
    /\ LET change == NextEvent(watcher.sent) IN
       watcher' = [watcher EXCEPT !.pc = "process", !.event = Some(change),
                                  !.sent = change.seq]
    /\ UNCHANGED << authVars, rateVars, docVars, index_lock, search_index, cancel, couch >>

\* process_change on the line; decoded is whether decode_content, when it
\* is called, succeeds
process_line(decoded) ==
    /\ watcher.pc = "process"
    /\ LET change == Unwrap(watcher.event)
           active == /\ ~starts_with(change.id, <<"h", ":">>)
                     /\ ~starts_with(change.id, <<"_">>)
                     /\ ~change.deleted
                     /\ Unwrap(change.doc).kind = "note"
                     /\ Unwrap(change.doc).deleted /= Some(TRUE)
           content == IF decoded THEN Ok(Unwrap(change.doc).content) ELSE Err("chunk")
           out == process_change(search_index, change, content) IN
       /\ ~decoded => active
       /\ search_index' = out.index
       /\ watcher' = [watcher EXCEPT !.pc = "stream", !.event = None,
                         !.done = Some([seq |-> change.seq, ok |-> out.ok])]
    /\ UNCHANGED << authVars, rateVars, docVars, index_lock, cancel, couch >>

\* watch_changes: the stream gives an error
stream_error ==
    /\ watcher.pc = "stream"
    /\ watcher' = [watcher EXCEPT !.pc = "sleep", !.timer = RECONNECT_SECS,
                                  !.cause = "error"]
    /\ UNCHANGED << authVars, rateVars, docVars, index_lock, search_index, cancel, couch >>

\* watch_changes: the stream ends, the server having closed the connection;
\* watch_changes returns Ok and run breaks
stream_end ==
    /\ watcher.pc = "stream"
    /\ watcher' = [watcher EXCEPT !.pc = "stopped", !.cause = "closed"]
    /\ UNCHANGED << authVars, rateVars, docVars, index_lock, search_index, cancel, couch >>

\* watch_changes: the token's branch of the select!
stream_cancelled ==
    /\ watcher.pc = "stream"
    /\ "cancelled" \in select_stream(Unsent(watcher.sent) /= {}, cancel)
    /\ watcher' = [watcher EXCEPT !.pc = "stopped", !.cause = "cancel"]
    /\ UNCHANGED << authVars, rateVars, docVars, index_lock, search_index, cancel, couch >>

\* run: the sleep of the select! is over
sleep_elapsed ==
    /\ watcher.pc = "sleep"
    /\ watcher' = [watcher EXCEPT !.pc = "run"]
    /\ UNCHANGED << authVars, rateVars, docVars, index_lock, search_index, cancel, couch >>

\* run: the token's branch of the select!
sleep_cancelled ==
    /\ watcher.pc = "sleep"
    /\ cancel
    /\ watcher' = [watcher EXCEPT !.pc = "stopped", !.cause = "cancel"]
    /\ UNCHANGED << authVars, rateVars, docVars, index_lock, search_index, cancel, couch >>

\* main: cancel_token.cancel() at shutdown
shutdown ==
    /\ watcher.pc /= "loading"
    /\ ~cancel
    /\ cancel' = TRUE
    /\ UNCHANGED << authVars, rateVars, docVars, index_lock, search_index, watcher, couch >>

NextWatch ==
    \/ \E id \in WatchIds : \E body \in Bodies(couch.seq + 1) : couch_put(id, body)
    \/ \E id \in WatchIds : couch_delete(id)
    \/ initial_load
    \/ run_top
    \/ \E answer \in {"ok", "invalid", "error"} : get_response(answer)
    \/ \E ok \in BOOLEAN : resync_response(ok)
    \/ stream_chunk
    \/ \E decoded \in BOOLEAN : process_line(decoded)
    \/ stream_error
    \/ stream_end
    \/ stream_cancelled
    \/ sleep_elapsed
    \/ sleep_cancelled
    \/ shutdown

SpecWatch == Init /\ [][NextWatch]_vars

\* The task is polled whenever a future it waits on is ready, and every
\* request to the database is answered or fails: a step of the task that
\* stays possible is taken. select! picks at random among the branches that
\* are ready, so the token's branch is taken if it is ready again and again.
WatchFair ==
    /\ WF_vars(initial_load)
    /\ WF_vars(run_top)
    /\ WF_vars(\E answer \in {"ok", "invalid", "error"} : get_response(answer))
    /\ WF_vars(\E ok \in BOOLEAN : resync_response(ok))
    /\ WF_vars(stream_chunk)
    /\ WF_vars(\E decoded \in BOOLEAN : process_line(decoded))
    /\ WF_vars(sleep_elapsed)
    /\ SF_vars(stream_cancelled)
    /\ SF_vars(sleep_cancelled)

SpecWatchLive == SpecWatch /\ WatchFair

\* The backend stays reachable: a request that is made again and again is
\* answered well in the end.
BackendReachable ==
    /\ SF_vars(get_response("ok"))
    /\ SF_vars(resync_response(TRUE))
    /\ SF_vars(process_line(TRUE))

SpecWatchReachable == SpecWatchLive /\ BackendReachable

\* the index holds exactly the live notes of the store, with their content
IndexMatchesStore == search_index.notes = get_all_notes_with_content.notes

\* C23: when the feed request is answered 400 or with a body that mentions
\* since, and full_resync gets the notes, the index afterwards holds exactly
\* the notes of the backend, last_seq is the sequence they were read at, and
\* the watcher goes on to open the feed again: it has not stopped.
C23_Step ==
    (watcher.pc = "resync" /\ watcher'.pc \notin {"resync", "sleep"}) =>
        /\ DOMAIN search_index'.notes = LiveNotes
        /\ Cardinality(DOMAIN search_index'.notes) = Cardinality(LiveNotes)
        /\ search_index'.last_seq = Some(couch.seq)
        /\ watcher'.pc /= "stopped"

C23_ResyncResumes == [][C23_Step]_vars

\* C24: unless the token is cancelled, from some moment on the index holds
\* exactly the live notes of the store with their current content (the
\* store stops changing, the backend stays reachable).
C24_EventuallyConsistent == <>cancel \/ <>[]IndexMatchesStore

\* C27: when process_change has dealt with the change of sequence S,
\* whatever the change is and whether or not the document parsed and its
\* content decoded, last_seq is S.
C27_Step ==
    (watcher.pc = "process" /\ watcher'.pc /= "process") =>
        search_index'.last_seq = Some(Unwrap(watcher.event).seq)

C27_LastSeqIsSeq == [][C27_Step]_vars

\* C28: a stream that ends in an error sends the watcher to a wait of 5
\* seconds; if the token is not cancelled the wait ends at the top of run,
\* where the request is made with since = the last_seq of that moment, or
\* now if there is none; and the feed that opens sends every change after
\* that last_seq.
C28_Step ==
    /\ (watcher.pc = "stream" /\ watcher'.pc = "sleep") => watcher'.timer = 5
    /\ (watcher.pc = "sleep" /\ watcher'.pc /= "sleep" /\ ~cancel) => watcher'.pc = "run"
    /\ (watcher.pc = "run" /\ watcher'.pc /= "run") =>
          /\ watcher'.pc = "get"
          /\ watcher'.since =
                IF search_index.last_seq = None THEN [now |-> TRUE, seq |-> 0]
                ELSE [now |-> FALSE, seq |-> Unwrap(search_index.last_seq)]
    /\ (watcher.pc = "get" /\ watcher'.pc = "stream" /\ search_index.last_seq /= None) =>
          Unsent(watcher'.sent) =
             { id \in DOMAIN couch.docs : couch.docs[id].seq > Unwrap(search_index.last_seq) }

C28_ReconnectFromLastSeq == [][C28_Step]_vars

\* after a stream error the feed was opened again, and it has sent a change
\* that came after the last_seq the watcher had
C28_Witness ==
    /\ watcher.cause = "error"
    /\ watcher.pc = "process"
    /\ ~watcher.since.now
    /\ search_index.last_seq = Some(watcher.since.seq)
    /\ Unwrap(watcher.event).seq > watcher.since.seq
    /\ watcher.done /= None

\* C29: the watcher is stopped only if the token has been cancelled.
C29_StoppedOnlyCancelled == watcher.pc = "stopped" => cancel

TokenSteps(Step(_, _)) ==
    \A s \in Slots :
        (inflight[s].kind = "token" /\ inflight[s].pc = "take" /\ inflight'[s] = Idle) =>
            \A req \in TokenRequests(Unwrap(inflight[s].req)) :
                token_take(s, req) => Step(s, req)

\* C36: a request that lacks code, code_verifier or redirect_uri is answered
\* invalid_request and leaves the store as it found it after its
\* cleanup_expired: every entry, the one under the presented code included,
\* is still there.
C36_Step(s, req) ==
    (req.code = None \/ req.code_verifier = None \/ req.redirect_uri = None) =>
        /\ pending' = pending
        /\ insertion_order' = insertion_order
        /\ (req.code /= None /\ Unwrap(req.code) \in DOMAIN pending) =>
              TokenOutcome(pending, insertion_order, req).response.error = "invalid_request"

C36_MissingParameterKeepsStore == [][TokenSteps(C36_Step)]_vars

\* the authorization codes an exchange has taken and failed on the
\* redirect_uri or the PKCE check
FailedExchange ==
    { c \in DOMAIN sent \cap DOMAIN auth_codes : sent[c].error = "invalid_grant" }

\* C37, as stated: after a failed exchange every request with the same code
\* is answered invalid_grant.
C37_StepAsStated(s, req) ==
    (req.code /= None /\ Unwrap(req.code) \in FailedExchange) =>
        TokenOutcome(pending, insertion_order, req).response.error = "invalid_grant"

C37_LaterAlwaysInvalidGrant == [][TokenSteps(C37_StepAsStated)]_vars

\* C37: the first /token request that looks a code up consumes it, whether
\* or not it goes on to succeed: after an exchange that failed the
\* redirect_uri or the PKCE check the code is not in the store, no later
\* request with it gets a token, and such a request is answered
\* invalid_grant, or invalid_request if it carries no code_verifier.
C37_Step(s, req) ==
    (req.code /= None /\ Unwrap(req.code) \in FailedExchange) =>
        /\ Unwrap(req.code) \notin DOMAIN pending
        /\ tokens' = tokens
        /\ pending' = pending
        /\ TokenOutcome(pending, insertion_order, req).response.error =
              IF req.code_verifier = None THEN "invalid_request" ELSE "invalid_grant"

C37_ConsumedByFirstLookup ==
    /\ [](\A c \in FailedExchange : c \notin DOMAIN pending
                                    /\ \A t \in tokens : t.code /= c)
    /\ [][TokenSteps(C37_Step)]_vars

\* an exchange failed on an authorization code, and another /token request
\* sent with that code is about to look it up
C37_Witness ==
    \E c \in FailedExchange : \E s \in Slots :
        /\ inflight[s].kind = "token" /\ inflight[s].pc = "take"
        /\ c \in Unwrap(inflight[s].req)

(* ------------------------------------------------------------------ *)
(* AuthorizationStore called directly: SpecStoreApi. As SpecLRU, and   *)
(* store_pending is also called with a code that was stored before.    *)
(* ------------------------------------------------------------------ *)

\* queue entries beyond the size of the map that the calls may build up
\* in SpecStoreApi
MaxStale == 1

\* store_pending(code, auth) with a code handed out earlier
api_store_again(code) ==
    /\ next_uuid >= FillLevel
    /\ code < next_uuid
    /\ Len(insertion_order) - Cardinality(DOMAIN pending) < MaxStale
    /\ LET st == store_pending(pending, insertion_order, code, RecordOf(code, now)) IN
       /\ pending' = st.pending
       /\ insertion_order' = st.order
    /\ last' = [op |-> "store_pending", code |-> Some(code), result |-> None,
                stores_before |-> StoresOnly]
    /\ UNCHANGED << ext, clients, consent_pin, now, next_uuid, registrations, inflight,
                    session_codes, auth_codes, rejected, sent, taken, tokens >>

NextStoreApi ==
    \/ lru_store
    \/ \E code \in ProbeCodes : lru_take(code)
    \/ lru_cleanup
    \/ lru_tick
    \/ \E code \in ProbeCodes : api_store_again(code)

SpecStoreApi == InitLRU /\ [][NextStoreApi]_vars

\* C38: after any sequence of store_pending, take_pending and cleanup_expired
\* calls, a store_pending of a code already present included, the queue holds
\* exactly the codes of the map, each once, the older entry first
C38_QueueIsMapInOrder ==
    /\ Len(insertion_order) = Cardinality(DOMAIN pending)
    /\ \A i \in 1..Len(insertion_order) : insertion_order[i] \in DOMAIN pending
    /\ \A i \in 1..Len(insertion_order) - 1 :
          /\ insertion_order[i] /= insertion_order[i + 1]
          /\ pending[insertion_order[i]].created_at
                <= pending[insertion_order[i + 1]].created_at

(* ------------------------------------------------------------------ *)
(* ChangesWatcher::process_change: the classification of an event      *)
(* ------------------------------------------------------------------ *)

\* the entries of every path but id are what they were
OtherEntriesKept(id) ==
    LET before == search_index.notes
        after == search_index'.notes IN
    /\ DOMAIN after \ {id} = DOMAIN before \ {id}
    /\ \A p \in DOMAIN before \ {id} : after[p] = before[p]

\* C32: process_change takes the first case that applies: an id that
\* starts with h: or _ leaves every entry as it was, flagged deleted or not;
\* else an event flagged deleted, or a document with deleted == true, leaves
\* no entry for the id; else the entry of the id holds the decoded content,
\* its title and the mtime of the document (when the document parsed and
\* decoded; an event that fails leaves the index alone); the entries of all
\* other paths are unchanged in every case.
C32_Step ==
    (watcher.pc = "process" /\ watcher'.pc /= "process") =>
        LET change == Unwrap(watcher.event)
            id == change.id
            doc == Unwrap(change.doc) IN
        /\ OtherEntriesKept(id)
        /\ IF starts_with(id, <<"h", ":">>) \/ starts_with(id, <<"_">>)
           THEN search_index'.notes = search_index.notes
           ELSE IF change.deleted \/ (doc.kind = "note" /\ doc.deleted = Some(TRUE))
           THEN id \notin DOMAIN search_index'.notes
           ELSE IF Unwrap(watcher'.done).ok
           THEN /\ id \in DOMAIN search_index'.notes
                /\ search_index'.notes[id] =
                     [path |-> id, title |-> TitleOf(id, doc.content),
                      content |-> doc.content, mtime |-> doc.mtime]
           ELSE search_index'.notes = search_index.notes

LockFree == ~index_lock.writer /\ index_lock.readers = 0

\* the event process_change is working on is an active note: its content
\* has to be fetched
ActiveNote(change) ==
    /\ ~starts_with(change.id, <<"h", ":">>)
    /\ ~starts_with(change.id, <<"_">>)
    /\ ~change.deleted
    /\ IsSome(change.doc)
    /\ Unwrap(change.doc).kind = "note"
    /\ Unwrap(change.doc).deleted /= Some(TRUE)

\* serde_json::from_value(doc_value)? fails on the document of the event
ParseFails(change) ==
    /\ ~starts_with(change.id, <<"h", ":">>)
    /\ ~starts_with(change.id, <<"_">>)
    /\ ~change.deleted
    /\ IsSome(change.doc)
    /\ Unwrap(change.doc).kind /= "note"

\* the statements of process_change that takes the lock twice: once to
\* change the entries, once to assign last_seq
process_change_statements_two_sections(active) ==
    (IF active THEN << "decode" >> ELSE << >>)
        \o << "acquire", "mutate", "release", "acquire", "last_seq", "release" >>

\* the statements of process_change after the classification, in program
\* order: decode_content for an active note, index.write().await, the
\* change of the entries, the assignment of last_seq, the end of the scope
\* of the guard
process_change_statements(active) ==
    (IF active THEN << "decode" >> ELSE << >>)
        \o << "acquire", "mutate", "last_seq", "release" >>

\* the statements of the event in hand, and the next one
Statements == process_change_statements(ActiveNote(Unwrap(watcher.event)))

NextStatement == Statements[watcher.step + 1]

\* statements 1..watcher.step have been executed
Executed(stmt) == \E i \in 1..watcher.step : Statements[i] = stmt

\* the statement is done; after the last one process_change returns Ok
Advance(w, seq) ==
    IF w.step + 1 = Len(Statements)
    THEN [w EXCEPT !.pc = "stream", !.event = None, !.step = 0,
                   !.done = Some([seq |-> seq, ok |-> TRUE])]
    ELSE [w EXCEPT !.step = w.step + 1]

\* from_value fails: process_change returns the error
lock_parse_fail ==
    /\ watcher.pc = "process"
    /\ watcher.step = 0
    /\ ParseFails(Unwrap(watcher.event))
    /\ watcher' = [watcher EXCEPT !.pc = "stream", !.event = None,
                      !.done = Some([seq |-> Unwrap(watcher.event).seq, ok |-> FALSE])]
    /\ UNCHANGED << authVars, rateVars, docVars, search_index, cancel, couch, index_lock >>

\* decode_content: the chunks are fetched from the database; when that
\* fails process_change returns the error and every guard is dropped
lock_decode(decoded) ==
    /\ watcher.pc = "process"
    /\ ~ParseFails(Unwrap(watcher.event))
    /\ NextStatement = "decode"
    /\ IF decoded
       THEN /\ watcher' = Advance(watcher, Unwrap(watcher.event).seq)
            /\ UNCHANGED index_lock
       ELSE /\ watcher' = [watcher EXCEPT !.pc = "stream", !.event = None, !.step = 0,
                             !.done = Some([seq |-> Unwrap(watcher.event).seq,
                                            ok |-> FALSE])]
            /\ index_lock' = [index_lock EXCEPT !.writer = FALSE]
    /\ UNCHANGED << authVars, rateVars, docVars, search_index, cancel, couch >>

\* index.write().await: granted when nobody holds the lock
lock_acquire ==
    /\ watcher.pc = "process"
    /\ ~ParseFails(Unwrap(watcher.event))
    /\ NextStatement = "acquire"
    /\ LockFree
    /\ index_lock' = [index_lock EXCEPT !.writer = TRUE]
    /\ watcher' = Advance(watcher, Unwrap(watcher.event).seq)
    /\ UNCHANGED << authVars, rateVars, docVars, search_index, cancel, couch >>

\* index.upsert or index.remove, where the event has one
lock_mutate ==
    /\ watcher.pc = "process"
    /\ NextStatement = "mutate"
    /\ index_lock.writer
    /\ LET change == Unwrap(watcher.event)
           content == Ok(Unwrap(change.doc).content) IN
       search_index' = [search_index EXCEPT
                          !.notes = process_change(search_index, change, content).index.notes]
    /\ watcher' = Advance(watcher, Unwrap(watcher.event).seq)
    /\ UNCHANGED << authVars, rateVars, docVars, cancel, couch, index_lock >>

\* index.last_seq = Some(change.seq)
lock_last_seq ==
    /\ watcher.pc = "process"
    /\ NextStatement = "last_seq"
    /\ index_lock.writer
    /\ search_index' = [search_index EXCEPT !.last_seq = Some(Unwrap(watcher.event).seq)]
    /\ watcher' = Advance(watcher, Unwrap(watcher.event).seq)
    /\ UNCHANGED << authVars, rateVars, docVars, cancel, couch, index_lock >>

\* the guard goes out of scope
lock_release ==
    /\ watcher.pc = "process"
    /\ NextStatement = "release"
    /\ index_lock' = [index_lock EXCEPT !.writer = FALSE]
    /\ watcher' = Advance(watcher, Unwrap(watcher.event).seq)
    /\ UNCHANGED << authVars, rateVars, docVars, search_index, cancel, couch >>

\* full_resync: get_all_notes_with_content answers, or fails
resync_fetch(ok) ==
    /\ watcher.pc = "resync"
    /\ watcher' = IF ok
                  THEN [watcher EXCEPT !.pc = "resync_write",
                                       !.event = Some(get_all_notes_with_content)]
                  ELSE [watcher EXCEPT !.pc = "sleep", !.timer = RECONNECT_SECS,
                                       !.cause = "error"]
    /\ UNCHANGED << authVars, rateVars, docVars, search_index, cancel, couch, index_lock >>

\* full_resync: index.write().await is granted; clear, the upserts and
\* last_seq follow without an await, and the guard is dropped at the return
resync_write ==
    /\ watcher.pc = "resync_write"
    /\ LockFree
    /\ search_index' = full_resync(search_index, Unwrap(watcher.event))
    /\ watcher' = [watcher EXCEPT !.pc = "stopped", !.cause = "resync", !.event = None]
    /\ UNCHANGED << authVars, rateVars, docVars, cancel, couch, index_lock >>

\* run: index.read().await for last_seq, granted when no writer holds the
\* lock
run_top_locked ==
    /\ ~index_lock.writer
    /\ run_top

\* another task takes index.read().await
reader_acquire ==
    /\ watcher.pc /= "loading"
    /\ ~index_lock.writer
    /\ index_lock.readers = 0
    /\ index_lock' = [index_lock EXCEPT !.readers = 1]
    /\ UNCHANGED << authVars, rateVars, docVars, search_index, watcher, cancel, couch >>

\* and drops its guard
reader_release ==
    /\ index_lock.readers > 0
    /\ index_lock' = [index_lock EXCEPT !.readers = 0]
    /\ UNCHANGED << authVars, rateVars, docVars, search_index, watcher, cancel, couch >>

NextWatchLock ==
    \/ \E id \in WatchIds : \E body \in Bodies(couch.seq + 1) : couch_put(id, body)
    \/ \E id \in WatchIds : couch_delete(id)
    \/ initial_load
    \/ run_top_locked
    \/ \E answer \in {"ok", "invalid", "error"} : get_response(answer)
    \/ \E ok \in BOOLEAN : resync_fetch(ok)
    \/ resync_write
    \/ stream_chunk
    \/ lock_parse_fail
    \/ \E decoded \in BOOLEAN : lock_decode(decoded)
    \/ lock_acquire
    \/ lock_mutate
    \/ lock_last_seq
    \/ lock_release
    \/ reader_acquire
    \/ reader_release
    \/ stream_error
    \/ stream_end
    \/ stream_cancelled
    \/ sleep_elapsed
    \/ sleep_cancelled
    \/ shutdown

SpecWatchLock == Init /\ [][NextWatchLock]_vars

\* the task is waiting for the database: the feed request, its stream, the
\* notes of a resync, the chunks of a note
BackendIO ==
    \/ watcher.pc \in {"get", "resync", "stream"}
    \/ watcher.pc = "process" /\ NextStatement = "decode"

\* the entries were changed for the event in hand and last_seq does not name
\* it yet, or last_seq names it and the entries are yet to change
HalfApplied ==
    /\ watcher.pc = "process"
    /\ Executed("mutate") /= Executed("last_seq")

\* C31: the change of the entries and the assignment of last_seq of an
\* event are made inside one critical section of the write lock, which is
\* taken after the content was fetched: whenever the lock is not held by the
\* writer (so whenever a reader sees the index) the event in hand is applied
\* to both the entries and last_seq or to neither, the index changes only
\* under the write lock of the watcher with no reader inside, and the write
\* lock is never held while the task waits for the database.
C31_Step ==
    /\ search_index' /= search_index =>
          \/ watcher.pc = "loading"
          \/ watcher.pc = "resync_write" /\ LockFree
          \/ index_lock.writer /\ index_lock.readers = 0
    /\ (watcher.pc = "process" /\ index_lock.writer /\ ~index_lock'.writer) =>
          /\ watcher'.pc = "stream"
          /\ Unwrap(watcher'.done).ok =>
                search_index'.last_seq = Some(Unwrap(watcher.event).seq)

C31_OneCriticalSection ==
    /\ [](HalfApplied => index_lock.writer)
    /\ [](index_lock.readers > 0 => ~index_lock.writer /\ ~HalfApplied)
    /\ [](BackendIO => ~index_lock.writer)
    /\ [][C31_Step]_vars

\* the entry of note a was changed for the event in hand under the write
\* lock, last_seq still names an earlier event, and the content had been
\* fetched before the lock was taken
C31_Witness ==
    /\ watcher.pc = "process"
    /\ index_lock.writer
    /\ ActiveNote(Unwrap(watcher.event))
    /\ Executed("decode") /\ Executed("mutate") /\ ~Executed("last_seq")
    /\ Unwrap(watcher.event).id \in DOMAIN search_index.notes
    /\ search_index.notes[Unwrap(watcher.event).id].content
          = Unwrap(Unwrap(watcher.event).doc).content
    /\ search_index.last_seq /= Some(Unwrap(watcher.event).seq)

(* ------------------------------------------------------------------ *)
(* A store shared with a LiveSync peer: SpecShared. Before the server  *)
(* acts, a peer has written notes of its own: their chunks have ids    *)
(* made from their content, so two notes with a paragraph in common    *)
(* have a child in common, and their eden field is not empty.          *)
(* ------------------------------------------------------------------ *)

SharedIds == {"a.md", "b.md"}

\* the chunks of the peer, by id: the id is made from the data
PeerLeaves == [c \in {101, 102} |-> IF c = 101 THEN utf8("a") ELSE utf8("U+00E9")]

\* the children a peer's note may have
PeerChildren == { << 101 >>, << 101, 102 >> }

\* the eden of a note the peer wrote: chunks kept inline in the parent
PeerEden == "{\"h:+e1\":{\"data\":\"a\",\"epoch\":1}}"

\* the peer replicates a note and its chunks into the database
peer_sync(id, children) ==
    /\ \A p \in 1..MaxProcs : procs[p].op = "idle"
    /\ id \notin DOMAIN db.notes
    /\ db' = [db EXCEPT
                !.leaves = [c \in DOMAIN @ \cup {children[j] : j \in DOMAIN children} |->
                              IF c \in DOMAIN PeerLeaves THEN PeerLeaves[c] ELSE @[c]],
                !.notes = MapInsert(@, id,
                    [id |-> id, rev |-> 1, path |-> id, data |-> "", ctime |-> now,
                     mtime |-> now,
                     size |-> Len(concat([j \in DOMAIN children |-> PeerLeaves[children[j]]])),
                     doc_type |-> "plain", children |-> children, deleted |-> None,
                     eden |-> PeerEden])]
    /\ UNCHANGED << authVars, rateVars, watchVars, tool_call, backend_log, procs,
                    next_chunk >>

NextShared ==
    \/ \E id \in SharedIds : \E children \in PeerChildren : peer_sync(id, children)
    \/ \E id \in SharedIds : \E got \in BOOLEAN : save_begin(1, id, <<>>, got)
    \/ \E ok \in BOOLEAN : save_step(1, ok)
    \/ \E id \in SharedIds : \E got \in BOOLEAN : delete_begin(1, id, got)
    \/ \E ok \in BOOLEAN : delete_put(1, ok)

\* the calls of the server come one after the other here
SpecShared == Init /\ [][NextShared]_vars

\* C33: eden survives a round trip: when save_note replaces a note that
\* exists (write_note, append_to_note) the eden stored afterwards is the
\* eden stored before, as it is when delete_note marks the note deleted.
C33_Step ==
    \A p \in 1..MaxProcs :
        /\ (/\ procs[p].op = "save_note"
            /\ procs'[p].op = "save_note"
            /\ ~procs[p].parent_written
            /\ procs'[p].parent_written
            /\ procs[p].id \in DOMAIN db.notes) =>
                db'.notes[procs[p].id].eden = db.notes[procs[p].id].eden
        /\ (/\ procs[p].op = "delete_note"
            /\ procs'[p].op = "delete_note"
            /\ procs[p].result = "running"
            /\ procs'[p].result = "ok") =>
                db'.notes[procs[p].id].eden = db.notes[procs[p].id].eden

C33_EdenKept == [][C33_Step]_vars

\* every child of the note is the id of a stored chunk
ChildrenStored(id) ==
    \A j \in DOMAIN db.notes[id].children : db.notes[id].children[j] \in DOMAIN db.leaves

\* C40: save_note on a path deletes only chunks that no other note has among
\* its children: whatever the store held before, a step of save_note on one
\* note leaves every other note with all its children stored.
C40_Step ==
    \A p \in 1..MaxProcs :
        (procs[p].op = "save_note" /\ procs'[p] /= procs[p]) =>
            \A other \in DOMAIN db.notes \ {procs[p].id} :
                ChildrenStored(other) =>
                    \A j \in DOMAIN db.notes[other].children :
                        db.notes[other].children[j] \in DOMAIN db'.leaves

C40_SharedChunksKept == [][C40_Step]_vars

(* ------------------------------------------------------------------ *)
(* read_note while save_note runs: SpecRead. A read is get_note, then  *)
(* decode_content: one get_leaf per child of the document it got, in   *)
(* order. The notes here are written by save_note (type plain).        *)
(* ------------------------------------------------------------------ *)

\* two contents of two chunks each, no chunk of one equal to a chunk of the
\* other
ReadContents ==
    { [i \in 1..9 |-> "U+1F600"],
      [i \in 1..10 |-> IF i \in {1, 10} THEN "a" ELSE "U+1F600"] }

\* what a String holds for a content
Bytes(content) == concat([k \in 1..Len(content) |-> utf8(content[k])])

\* read_note up to the first get_leaf: get_note, and the start of
\* decode_content; got is whether the GET was answered. now_holds is the
\* content the note has at this moment.
read_begin(p, id, got) ==
    /\ FreeProc(p)
    /\ LET existing == IF got THEN get_note(id) ELSE None IN
       procs' = [procs EXCEPT ![p] =
          IF IsSome(existing)
          THEN [op |-> "read_note", id |-> id, doc |-> Unwrap(existing), k |-> 1,
                content |-> <<>>,
                now_holds |-> push_chunks(db.leaves, Unwrap(existing).children, <<>>),
                result |-> IF Unwrap(existing).children = <<>> THEN "ok" ELSE "running"]
          ELSE [op |-> "read_note", id |-> id, doc |-> None, k |-> 1, content |-> <<>>,
                now_holds |-> Err("none"), result |-> "error"]]
    /\ UNCHANGED << authVars, rateVars, watchVars, tool_call, backend_log, db, next_chunk >>

\* decode_content: the next get_leaf and its answer; ok is whether the
\* database served the request
read_step(p, ok) ==
    /\ Running(p)
    /\ procs[p].op = "read_note"
    /\ LET me == procs[p]
           chunk_content == IF ok THEN get_leaf(db.leaves, me.doc.children[me.k])
                            ELSE Err("request") IN
       procs' = [procs EXCEPT ![p] =
          IF chunk_content.ok
          THEN [me EXCEPT !.content = @ \o chunk_content.value,
                          !.k = @ + 1,
                          !.result = IF me.k = Len(me.doc.children) THEN "ok"
                                     ELSE "running"]
          ELSE [me EXCEPT !.result = "error"]]
    /\ UNCHANGED << authVars, rateVars, watchVars, tool_call, backend_log, db, next_chunk >>

NextRead ==
    \/ \E p \in 1..MaxProcs : \E id \in NoteIds : \E content \in ReadContents :
         \E got \in BOOLEAN : save_begin(p, id, content, got)
    \/ \E p \in 1..MaxProcs : \E ok \in BOOLEAN : save_step(p, ok)
    \/ \E p \in 1..MaxProcs : \E id \in NoteIds : \E got \in BOOLEAN : read_begin(p, id, got)
    \/ \E p \in 1..MaxProcs : \E ok \in BOOLEAN : read_step(p, ok)

SpecRead == Init /\ [][NextRead]_vars

\* C39: a read of a path, whatever save_note does to the path meanwhile,
\* ends in an error or returns a whole content: the one the note had when
\* get_note was answered, which is a content some save_note wrote (the one
\* before the concurrent save or the one it writes); never a part of one, and
\* never chunks of two.
C39_ReadIsWhole ==
    \A p \in 1..MaxProcs :
        (procs[p].op = "read_note" /\ procs[p].result = "ok") =>
            /\ procs[p].now_holds = Ok(procs[p].content)
            /\ \E content \in ReadContents : procs[p].content = Bytes(content)

\* a read has returned the whole old content although the save_note that
\* ran beside it has replaced the note by another content and deleted an
\* old chunk
C39_Witness ==
    \E p, q \in 1..MaxProcs :
        /\ p /= q
        /\ procs[p].op = "read_note"
        /\ procs[p].result = "ok"
        /\ procs[q].op = "save_note"
        /\ procs[q].id = procs[p].id
        /\ procs[q].parent_written
        /\ procs[q].deleted /= {}
        /\ procs[q].existing = Some(procs[p].doc)
        /\ concat([j \in DOMAIN procs[q].chunks |-> procs[q].chunks[j].data]) /= procs[p].content

(* ------------------------------------------------------------------ *)
(* extract_title: SpecTitle. A string is the sequence of its           *)
(* characters; a content is lines joined by line feeds.                *)
(* ------------------------------------------------------------------ *)

MaxLines == 4

\* char::is_whitespace on the characters of the model
is_whitespace(ch) == ch \in {" ", "\n"}

\* str::trim
trim(s) ==
    LET keep == { i \in 1..Len(s) : ~is_whitespace(s[i]) } IN
    IF keep = {} THEN <<>>
    ELSE SubSeq(s, CHOOSE i \in keep : \A j \in keep : i <= j,
                   CHOOSE i \in keep : \A j \in keep : i >= j)

\* str::strip_prefix
strip_prefix(s, pat) ==
    IF starts_with(s, pat) THEN Some(SubSeq(s, Len(pat) + 1, Len(s))) ELSE None

RECURSIVE trim_end_matches(_, _)
\* str::trim_end_matches: the pattern is removed from the end as long as the
\* string ends with it
trim_end_matches(s, pat) ==
    IF pat /= <<>> /\ ends_with(s, pat)
    THEN trim_end_matches(SubSeq(s, 1, Len(s) - Len(pat)), pat)
    ELSE s

\* s.rsplit(sep).next(): what follows the last separator
rsplit_next(s, sep) ==
    LET at == { i \in 1..Len(s) : s[i] = sep } IN
    IF at = {} THEN s
    ELSE SubSeq(s, (CHOOSE i \in at : \A j \in at : i >= j) + 1, Len(s))

\* str::lines: the pieces between line feeds, without a last empty piece
lines(s) ==
    LET ends == { i \in 1..Len(s) : s[i] = "\n" } \cup { Len(s) + 1 }
        starts == { 1 } \cup { i + 1 : i \in ends \ { Len(s) + 1 } }
        nth(k) == CHOOSE i \in starts : Cardinality({ j \in starts : j < i }) = k - 1
        stop(i) == CHOOSE e \in ends : e >= i /\ \A f \in ends : f >= i => e <= f
        all == [k \in 1..Cardinality(starts) |-> SubSeq(s, nth(k), stop(nth(k)) - 1)] IN
    IF all[Len(all)] = <<>> THEN SubSeq(all, 1, Len(all) - 1) ELSE all

RECURSIVE title_loop(_, _, _, _)
\* the for loop of extract_title from line k on: the heading it returns, or
\* None when it ends without one
title_loop(ls, k, in_frontmatter, frontmatter_started) ==
    IF k > Len(ls) THEN None
    ELSE LET trimmed == trim(ls[k]) IN
         IF trimmed = <<"-", "-", "-">> /\ ~frontmatter_started
         THEN title_loop(ls, k + 1, TRUE, TRUE)
         ELSE IF trimmed = <<"-", "-", "-">> /\ in_frontmatter
         THEN title_loop(ls, k + 1, FALSE, frontmatter_started)
         ELSE IF in_frontmatter
         THEN title_loop(ls, k + 1, in_frontmatter, frontmatter_started)
         ELSE IF trimmed = <<>>
         THEN title_loop(ls, k + 1, in_frontmatter, frontmatter_started)
         ELSE IF IsSome(strip_prefix(trimmed, <<"#", " ">>))
         THEN Some(trim(Unwrap(strip_prefix(trimmed, <<"#", " ">>))))
         ELSE None

extract_title(path, content) ==
    LET heading == title_loop(lines(content), 1, FALSE, FALSE) IN
    IF IsSome(heading) THEN Unwrap(heading)
    ELSE rsplit_next(trim_end_matches(path, <<".", "m", "d">>), "/")

\* the lines of the contents: empty, blank, the frontmatter mark, headings
\* with and without spaces around, a # without a space, text
TitleLines ==
    { <<>>, <<" ">>, <<"-", "-", "-">>, <<"-", "-", "-", " ">>,
      <<"#", " ", "T">>, <<" ", "#", " ", " ", "U", " ">>, <<"#", "T">>, <<"x">> }

RECURSIVE join(_, _)
\* the lines with sep between them
join(ls, sep) ==
    IF ls = <<>> THEN <<>>
    ELSE IF Len(ls) = 1 THEN ls[1]
    ELSE ls[1] \o <<sep>> \o join(Tail(ls), sep)

TitleContents ==
    { join(ls, "\n") : ls \in UNION { [1..n -> TitleLines] : n \in 0..MaxLines } }

TitlePaths ==
    { <<"x", ".", "m", "d">>, <<"d", "/", "x", ".", "m", "d">>,
      <<"x", ".", "m", "d", ".", "m", "d">>, <<"d", ".", "m", "d", "/", "x">> }

\* one call, on any path and content
title_call(path, content) ==
    /\ last = NoCall
    /\ last' = [op |-> "extract_title", path |-> path, content |-> content,
                title |-> extract_title(path, content)]
    /\ UNCHANGED << ext, pending, insertion_order, clients, consent_pin, now,
                    next_uuid, registrations, inflight, session_codes, auth_codes,
                    rejected, sent, taken, tokens >>

NextTitle == \E path \in TitlePaths : \E content \in TitleContents : title_call(path, content)

SpecTitle == Init /\ [][NextTitle]_vars

\* the lines after a leading frontmatter block: the first line is --- and a
\* later line is ---
AfterFrontmatter(ls) ==
    LET marks == { k \in 2..Len(ls) : trim(ls[k]) = <<"-", "-", "-">> } IN
    IF ls /= <<>> /\ trim(ls[1]) = <<"-", "-", "-">> /\ marks /= {}
    THEN SubSeq(ls, (CHOOSE k \in marks : \A m \in marks : k <= m) + 1, Len(ls))
    ELSE ls

\* the last segment of the path, one .md taken off its end
FileName(path) ==
    LET segment == rsplit_next(path, "/") IN
    IF ends_with(segment, <<".", "m", "d">>) THEN SubSeq(segment, 1, Len(segment) - 3)
    ELSE segment

TitleAsStated(path, content) ==
    LET body == AfterFrontmatter(lines(content))
        full == { k \in 1..Len(body) : trim(body[k]) /= <<>> } IN
    IF full = {} THEN FileName(path)
    ELSE LET first == trim(body[CHOOSE k \in full : \A m \in full : k <= m]) IN
         IF starts_with(first, <<"#", " ">>)
         THEN trim(SubSeq(first, 3, Len(first)))
         ELSE FileName(path)

\* C35: extract_title skips a leading frontmatter block delimited by ---
\* lines, then takes the first non-empty line: if it begins with "# " the
\* title is the rest of the line trimmed, otherwise, or when there is no such
\* line, the last /-segment of the path with one trailing .md removed.
C35_TitleDerivation ==
    last.op = "extract_title" => last.title = TitleAsStated(last.path, last.content)

(* ------------------------------------------------------------------ *)
(* extract_snippet: SpecSnippet. A string is the sequence of its       *)
(* characters and an index into it is a byte offset, as in the code:   *)
(* a character of n bytes takes n offsets, and slicing a str at an     *)
(* offset inside a character panics.                                   *)
(* ------------------------------------------------------------------ *)

MaxSnipPad == 52

CONTEXT_SIZE == 50

\* str::len: the number of bytes
byte_len(s) ==
    Cardinality({ jb \in (1..Len(s)) \X (1..4) : jb[2] <= len_utf8(s[jb[1]]) })

\* the byte offset at which character k begins; Len(s) + 1 gives byte_len
offsets(s) == [k \in 1..Len(s) + 1 |-> byte_len(SubSeq(s, 1, k - 1))]

\* str::is_char_boundary
is_char_boundary(s, at) == \E k \in 1..Len(s) + 1 : offsets(s)[k] = at

\* char::to_lowercase of the characters of the model, and str::to_lowercase
char_to_lowercase(ch) ==
    CASE ch = "M" -> "m" [] ch = "U+212A" -> "k" [] OTHER -> ch

to_lowercase(s) == [k \in 1..Len(s) |-> char_to_lowercase(s[k])]

\* str::split_whitespace: the runs of characters that are not whitespace
split_whitespace(s) ==
    LET word_at == { k \in 1..Len(s) :
                       ~is_whitespace(s[k]) /\ (k = 1 \/ is_whitespace(s[k - 1])) }
        stop(k) == CHOOSE e \in k..Len(s) :
                      /\ \A j \in k..e : ~is_whitespace(s[j])
                      /\ (e = Len(s) \/ is_whitespace(s[e + 1]))
        nth(n) == CHOOSE k \in word_at : Cardinality({ j \in word_at : j < k }) = n - 1 IN
    [n \in 1..Cardinality(word_at) |-> SubSeq(s, nth(n), stop(nth(n)))]

\* str::find of a string: the byte offset of the first occurrence
find(s, pat) ==
    LET at == { k \in 1..Len(s) - Len(pat) + 1 : SubSeq(s, k, k + Len(pat) - 1) = pat } IN
    IF at = {} THEN None
    ELSE Some(offsets(s)[CHOOSE k \in at : \A j \in at : k <= j])

\* &s[from..to] for offsets that are character boundaries
slice(s, from, to) ==
    LET offs == offsets(s)
        first == CHOOSE k \in 1..Len(s) + 1 : offs[k] = from
        after == CHOOSE k \in 1..Len(s) + 1 : offs[k] = to IN
    SubSeq(s, first, after - 1)

Panic == [panic |-> TRUE, value |-> None]

Returned(v) == [panic |-> FALSE, value |-> v]

\* extract_snippet: None when no word of the query is found; a panic when
\* content is sliced at an offset that is not a character boundary
extract_snippet(content, query) ==
    LET content_lower == to_lowercase(content)
        query_words == split_whitespace(to_lowercase(query))
        found == { find(content_lower, query_words[n]) : n \in DOMAIN query_words }
                    \ { None } IN
    IF found = {} THEN Returned(None)
    ELSE
    LET offs == offsets(content)
        len == offs[Len(content) + 1]
        match_pos == CHOOSE m \in { Unwrap(f) : f \in found } :
                        \A f \in found : m <= Unwrap(f)
        start0 == IF match_pos >= CONTEXT_SIZE THEN match_pos - CONTEXT_SIZE ELSE 0
        end0 == IF match_pos + CONTEXT_SIZE < len THEN match_pos + CONTEXT_SIZE ELSE len
        before == { k \in 1..Len(content) : is_whitespace(content[k]) /\ offs[k] < start0 }
        start == IF before = {} THEN start0
                 ELSE LET k == CHOOSE k \in before : \A j \in before : k >= j IN
                      offs[k] + len_utf8(content[k])
        behind == { k \in 1..Len(content) : is_whitespace(content[k]) /\ offs[k] >= end0 }
        end == IF behind = {} THEN end0
               ELSE offs[CHOOSE k \in behind : \A j \in behind : k <= j]
        snippet == (IF start > 0 THEN <<".", ".", ".">> ELSE <<>>)
                      \o slice(content, start, end)
                      \o (IF end < len THEN <<".", ".", ".">> ELSE <<>>) IN
    IF ~is_char_boundary(content, start0) \/ ~is_char_boundary(content, end0)
    THEN Panic
    ELSE Returned(Some(join(split_whitespace(snippet), " ")))

\* runs of one character: a, the euro sign, the space
SnipPads == { [i \in 1..n |-> c] : n \in 0..MaxSnipPad, c \in {"a", "U+20AC", " "} }

\* what follows the word: nothing, words, seventeen euro signs
SnipTails ==
    { <<>>, <<" ", "a", " ", "a">>, [i \in 1..17 |-> "U+20AC"],
      <<" ">> \o [i \in 1..51 |-> "a"] \o <<" ", "a">> }

\* the contents: a run, then m, M or the Kelvin sign, then a tail
SnipContents ==
    { pad \o <<w>> \o tail : pad \in SnipPads, w \in {"m", "M", "U+212A"}, tail \in SnipTails }

SnipQueries == { <<"m">>, <<"k", " ", "M">> }

\* one call, on any content and query
snippet_call(content, query) ==
    /\ last = NoCall
    /\ last' = [op |-> "extract_snippet", content |-> content, query |-> query,
                out |-> extract_snippet(content, query)]
    /\ UNCHANGED << ext, pending, insertion_order, clients, consent_pin, now,
                    next_uuid, registrations, inflight, session_codes, auth_codes,
                    rejected, sent, taken, tokens >>

NextSnippet ==
    \E content \in SnipContents : \E query \in SnipQueries : snippet_call(content, query)

SpecSnippet == Init /\ [][NextSnippet]_vars

\* the words of the query that occur in the content, case folded
TokensFound(content, query) ==
    { w \in { split_whitespace(to_lowercase(query))[n] :
                n \in DOMAIN split_whitespace(to_lowercase(query)) } :
        contains(to_lowercase(content), w) }

\* C34: extract_snippet never cuts the content inside a character, so it
\* never panics; and when a word of the query occurs in the content it
\* returns a snippet that contains an occurrence of a word of the query and
\* is not longer than the content and two ellipses.
C34_SnippetSafe ==
    last.op = "extract_snippet" =>
        /\ ~last.out.panic
        /\ TokensFound(last.content, last.query) /= {} =>
              /\ IsSome(last.out.value)
              /\ \E w \in TokensFound(last.content, last.query) :
                    contains(to_lowercase(Unwrap(last.out.value)), w)
              /\ byte_len(Unwrap(last.out.value)) <= byte_len(last.content) + 6

====
